---- MODULE Spec2Model ----
(***************************************************************************)
(* Model of the reconciliation layer of the cultural-heritage mashup:      *)
(* QueryHandler.getById, the MetadataQueryHandler and                      *)
(* ProcessDataQueryHandler queries, and the BasicMashup aggregator.        *)
(*                                                                         *)
(* Python strings are sequences of one-character strings, so that the      *)
(* code's string operations (":" in s, split, upper, lower, startswith,    *)
(* SQL LIKE, REPLACE, lexicographic comparison) are computed, not assumed. *)
(***************************************************************************)
EXTENDS Integers, Sequences, FiniteSets, TLC

(***************************************************************************)
(* String literals of the source.                                          *)
(***************************************************************************)
BLAZEGRAPH_URL == <<"h", "t", "t", "p", ":", "/", "/", "1", "2", "7", ".", "0", ".", "0", ".", "1", ":", "9", "9", "9", "9", "/", "b", "l", "a", "z", "e", "g", "r", "a", "p", "h", "/", "s", "p", "a", "r", "q", "l">>
SQLITE_FILE_PATH == <<"d", "a", "t", "a", "/", "r", "e", "l", "a", "t", "i", "o", "n", "a", "l", ".", "d", "b">>
base_url == <<"h", "t", "t", "p", "s", ":", "/", "/", "g", "i", "t", "h", "u", "b", ".", "c", "o", "m", "/", "b", "a", "r", "a", "l", "d", "i", "r", "u", "f", "f", "e", "r", "/", "d", "s", "2", "4", "p", "r", "o", "j", "e", "c", "t", "/">>
SCHEMA_NS == <<"h", "t", "t", "p", "s", ":", "/", "/", "s", "c", "h", "e", "m", "a", ".", "o", "r", "g", "/">>
HTTP_PREFIX == <<"h", "t", "t", "p", ":", "/", "/">>
HTTPS_PREFIX == <<"h", "t", "t", "p", "s", ":", "/", "/">>
STR_None == <<"N", "o", "n", "e">>
STR_str == <<"s", "t", "r">>
STR_Unknown == <<"U", "n", "k", "n", "o", "w", "n">>
STR_VIAF == <<"V", "I", "A", "F">>
STR_ULAN == <<"U", "L", "A", "N">>
STR_noID == <<"n", "o", "I", "D">>
STR_Author == <<"A", "u", "t", "h", "o", "r">>
STR_Acquisition == <<"A", "c", "q", "u", "i", "s", "i", "t", "i", "o", "n">>
STR_Processing == <<"P", "r", "o", "c", "e", "s", "s", "i", "n", "g">>
STR_Modelling == <<"M", "o", "d", "e", "l", "l", "i", "n", "g">>
STR_Optimising == <<"O", "p", "t", "i", "m", "i", "s", "i", "n", "g">>
STR_Exporting == <<"E", "x", "p", "o", "r", "t", "i", "n", "g">>
STR_Person == <<"P", "e", "r", "s", "o", "n">>
STR_Activity == <<"A", "c", "t", "i", "v", "i", "t", "y">>
STR_CulturalHeritageObject == <<"C", "u", "l", "t", "u", "r", "a", "l", "H", "e", "r", "i", "t", "a", "g", "e", "O", "b", "j", "e", "c", "t">>
STR_NauticalChart == <<"N", "a", "u", "t", "i", "c", "a", "l", "C", "h", "a", "r", "t">>
STR_ManuscriptPlate == <<"M", "a", "n", "u", "s", "c", "r", "i", "p", "t", "P", "l", "a", "t", "e">>
STR_ManuscriptVolume == <<"M", "a", "n", "u", "s", "c", "r", "i", "p", "t", "V", "o", "l", "u", "m", "e">>
STR_PrintedVolume == <<"P", "r", "i", "n", "t", "e", "d", "V", "o", "l", "u", "m", "e">>
STR_PrintedMaterial == <<"P", "r", "i", "n", "t", "e", "d", "M", "a", "t", "e", "r", "i", "a", "l">>
STR_Herbarium == <<"H", "e", "r", "b", "a", "r", "i", "u", "m">>
STR_Specimen == <<"S", "p", "e", "c", "i", "m", "e", "n">>
STR_Painting == <<"P", "a", "i", "n", "t", "i", "n", "g">>
STR_Model == <<"M", "o", "d", "e", "l">>
STR_Map == <<"M", "a", "p">>

\* Character tables: str.upper / str.lower, and the byte order of the
\* characters the data uses (SQLite compares TEXT with memcmp).
UPPERCASE == <<"A", "B", "C", "D", "E", "F", "G", "H", "I", "J", "K", "L", "M", "N", "O", "P", "Q", "R", "S", "T", "U", "V", "W", "X", "Y", "Z">>
LOWERCASE == <<"a", "b", "c", "d", "e", "f", "g", "h", "i", "j", "k", "l", "m", "n", "o", "p", "q", "r", "s", "t", "u", "v", "w", "x", "y", "z">>
ASCII_ORDER == <<" ", ",", "-", ".", "/", "0", "1", "2", "3", "4", "5", "6", "7", "8", "9", ":", "A", "B", "C", "D", "E", "F", "G", "H", "I", "J", "K", "L", "M", "N", "O", "P", "Q", "R", "S", "T", "U", "V", "W", "X", "Y", "Z", "_", "a", "b", "c", "d", "e", "f", "g", "h", "i", "j", "k", "l", "m", "n", "o", "p", "q", "r", "s", "t", "u", "v", "w", "x", "y", "z">>

(***************************************************************************)
(* Strings of the backend contents and of the query arguments.             *)
(***************************************************************************)
STR_Book == <<"B", "o", "o", "k">>
id_obj1 == <<"o", "b", "j", "1">>
id_obj2 == <<"o", "b", "j", "2">>
id_obj3 == <<"o", "b", "j", "3">>
id_obj4 == <<"o", "b", "j", "4">>
id_obj9 == <<"o", "b", "j", "9">>
id_VIAF1 == <<"V", "I", "A", "F", ":", "1">>
id_ulan2 == <<"u", "l", "a", "n", ":", "2">>
id_ISNI4 == <<"I", "S", "N", "I", ":", "4">>
id_VIAF7 == <<"V", "I", "A", "F", ":", "7">>
t_Mona == <<"M", "o", "n", "a">>
t_Lisa == <<"L", "i", "s", "a">>
t_Atlas == <<"A", "t", "l", "a", "s">>
t_Globe == <<"G", "l", "o", "b", "e">>
n_Leo == <<"L", "e", "o">>
n_Leonardo == <<"L", "e", "o", "n", "a", "r", "d", "o">>
n_Anon == <<"A", "n", "o", "n">>
n_Ugo == <<"U", "g", "o">>
n_Ida == <<"I", "d", "a">>
d_1503 == <<"1", "5", "0", "3">>
d_ca_1520 == <<"c", "a", ".", " ", "1", "5", "2", "0">>
d_1500_1510 == <<"1", "5", "0", "0", "-", "1", "5", "1", "0">>
o_MUSEO == <<"M", "U", "S", "E", "O", " ", "C", "I", "V", "I", "C", "O">>
o_Louvre == <<"L", "o", "u", "v", "r", "e">>
o_louvre == <<"l", "o", "u", "v", "r", "e">>
p_Paris == <<"P", "a", "r", "i", "s">>
p_Bologna == <<"B", "o", "l", "o", "g", "n", "a">>
i_Uni == <<"U", "n", "i">>
i_Lab == <<"L", "a", "b">>
r_Ann == <<"A", "n", "n">>
r_Bob == <<"B", "o", "b">>
q_Xray == <<"X", "-", "r", "a", "y">>
q_Photo == <<"P", "h", "o", "t", "o">>
q_ray == <<"R", "A", "Y">>
l_Scanner == <<"S", "c", "a", "n", "n", "e", "r">>
l_SCAN == <<"S", "C", "A", "N", ",", " ", "L", "e", "n", "s">>
l_Lens == <<"L", "e", "n", "s">>
l_scan == <<"s", "c", "a", "n">>
l_Drone == <<"D", "r", "o", "n", "e">>
dt_20210501 == <<"2", "0", "2", "1", "-", "0", "5", "-", "0", "1">>
dt_20210510 == <<"2", "0", "2", "1", "-", "0", "5", "-", "1", "0">>
dt_20190101 == <<"2", "0", "1", "9", "-", "0", "1", "-", "0", "1">>
dt_20190201 == <<"2", "0", "1", "9", "-", "0", "2", "-", "0", "1">>
dt_20200101 == <<"2", "0", "2", "0", "-", "0", "1", "-", "0", "1">>
u_un == <<"u", "n">>
u_an == <<"a", "n">>

(***************************************************************************)
(* Values that are not strings: Python None, pandas NaN (the cell of a     *)
(* column some other row binds), an unbound SPARQL variable, and the       *)
(* absence of an entity.                                                   *)
(***************************************************************************)
None == <<"<None>">>
NaN == <<"<NaN>">>
Unbound == <<"<unbound>">>
NoEntity == [kind |-> None]

\* bool(v) for a string, None or NaN: NaN is a non-zero float, hence true.
Truthy(v) == v # None /\ v # <<>>
\* `a or b`
Or(a, b) == IF Truthy(a) THEN a ELSE b
\* str(v)
Str(v) == IF v = None THEN STR_None ELSE IF v = NaN THEN <<"n", "a", "n">> ELSE v
\* pd.notna(v)
NotNa(v) == v # None /\ v # NaN
\* isinstance(v, str)
IsStr(v) == v # None /\ v # NaN

(***************************************************************************)
(* String operations.                                                      *)
(***************************************************************************)
\* s.startswith(p)
StartsWith(s, p) == Len(p) <= Len(s) /\ SubSeq(s, 1, Len(p)) = p

\* `sub in s`
Contains(s, sub) ==
    \E i \in 0..(Len(s) - Len(sub)) : SubSeq(s, i + 1, i + Len(sub)) = sub

UpperChar(c) ==
    IF \E i \in DOMAIN LOWERCASE : LOWERCASE[i] = c
    THEN UPPERCASE[CHOOSE i \in DOMAIN LOWERCASE : LOWERCASE[i] = c]
    ELSE c

LowerChar(c) ==
    IF \E i \in DOMAIN UPPERCASE : UPPERCASE[i] = c
    THEN LOWERCASE[CHOOSE i \in DOMAIN UPPERCASE : UPPERCASE[i] = c]
    ELSE c

RECURSIVE Upper(_)
Upper(s) == IF s = <<>> THEN <<>> ELSE <<UpperChar(Head(s))>> \o Upper(Tail(s))

RECURSIVE Lower(_)
Lower(s) == IF s = <<>> THEN <<>> ELSE <<LowerChar(Head(s))>> \o Lower(Tail(s))

\* s.split(c)[0]: the text before the first c, the whole of s when c is absent.
RECURSIVE SplitHead(_, _)
SplitHead(s, c) ==
    IF s = <<>> \/ Head(s) = c THEN <<>> ELSE <<Head(s)>> \o SplitHead(Tail(s), c)

\* SPARQL REPLACE(s, pat, rep) for a literal, non-empty pattern.
RECURSIVE Replace(_, _, _)
Replace(s, pat, rep) ==
    IF s = <<>> THEN <<>>
    ELSE IF StartsWith(s, pat)
         THEN rep \o Replace(SubSeq(s, Len(pat) + 1, Len(s)), pat, rep)
         ELSE <<Head(s)>> \o Replace(Tail(s), pat, rep)

CharCode(c) == CHOOSE i \in DOMAIN ASCII_ORDER : ASCII_ORDER[i] = c

\* a < b as SQLite compares TEXT: byte by byte, a proper prefix first.
RECURSIVE LexLess(_, _)
LexLess(a, b) ==
    IF b = <<>> THEN FALSE
    ELSE IF a = <<>> THEN TRUE
    ELSE IF Head(a) = Head(b) THEN LexLess(Tail(a), Tail(b))
    ELSE CharCode(Head(a)) < CharCode(Head(b))

LexLeq(a, b) == a = b \/ LexLess(a, b)

\* SQL `col LIKE '%' || text || '%'`: NULL never matches, ASCII letters match
\* without regard to case.
Like(v, text) == v # None /\ Contains(Lower(v), Lower(text))

\* The concatenation of a sequence of sequences.
RECURSIVE Flatten(_)
Flatten(ss) == IF ss = <<>> THEN <<>> ELSE Head(ss) \o Flatten(Tail(ss))

\* The tuple <<f[1], ..., f[n]>>.
RECURSIVE MapSeq(_, _)
MapSeq(n, f) == IF n = 0 THEN <<>> ELSE Append(MapSeq(n - 1, f), f[n])

DIGITS == <<"0", "1", "2", "3", "4", "5", "6", "7", "8", "9">>

IsDigit(c) == \E i \in DOMAIN DIGITS : DIGITS[i] = c

DigitValue(c) == (CHOOSE i \in DOMAIN DIGITS : DIGITS[i] = c) - 1

\* STRBEFORE(s, c) and STRAFTER(s, c) for a one-character c: the text before
\* and after the first c, the empty string when s holds no c.
FirstAt(s, c) ==
    IF \E i \in 1..Len(s) : s[i] = c
    THEN CHOOSE i \in 1..Len(s) : s[i] = c /\ \A j \in 1..(i - 1) : s[j] # c
    ELSE 0

StrBefore(s, c) == IF FirstAt(s, c) = 0 THEN <<>> ELSE SubSeq(s, 1, FirstAt(s, c) - 1)

StrAfter(s, c) == IF FirstAt(s, c) = 0 THEN <<>> ELSE SubSeq(s, FirstAt(s, c) + 1, Len(s))

\* REPLACE(s, "[^0-9]", ""): the digits of s.
DigitsOnly(s) == SelectSeq(s, IsDigit)

\* The number a run of digits writes.
RECURSIVE DecimalValue(_)
DecimalValue(s) ==
    IF s = <<>> THEN 0
    ELSE 10 * DecimalValue(SubSeq(s, 1, Len(s) - 1)) + DigitValue(s[Len(s)])

\* What no number is bound to.
NoInteger == -1

\* xsd:integer(s) for a text of digits: an error, hence no binding, for
\* the empty text.
XsdInteger(s) == IF s = <<>> THEN NoInteger ELSE DecimalValue(s)

(***************************************************************************)
(* State.  A mashup instance owns two ordered handler collections; every   *)
(* handler reads one backend.  The backends are populated before the       *)
(* mashup is used and are not written by it: world holds their contents   *)
(* and never changes.  The last call,                                      *)
(* what it returned or raised and the handler calls it made are kept to    *)
(* state the properties.                                                   *)
(***************************************************************************)
VARIABLES
    metadataQuery,   \* BasicMashup.metadataQuery: sequence of metadata handlers
    processQuery,    \* BasicMashup.processQuery: sequence of process handlers
    world,           \* what the backends hold
    op,              \* name of the last method called on the mashup
    arg,             \* its argument (None when it takes none)
    result,          \* what it returned
    calls,           \* the handler calls it made, in order
    raised,          \* the exception that left it, "none" when it returned
    outside          \* the lists held outside the mashup, and which of them it was given

vars == <<metadataQuery, processQuery, world, op, arg, result, calls, raised, outside>>

MetadataHandlers == {"M1", "M2"}
ProcessHandlers == {"P1", "P2"}

\* The longest handler collection the model explores.
MaxHandlers == 2

(***************************************************************************)
(* Entity model (impl.py 20-169).  An entity is a record whose kind is the *)
(* name of its class.                                                      *)
(***************************************************************************)
Person(id, name) == [kind |-> STR_Person, id |-> id, name |-> name]

\* CulturalHeritageObject.__init__: owner is coerced with str(); hasAuthor
\* is a list (a Person becomes a one-element list, None the empty list).
CulturalHeritageObject(kind, id, title, date, owner, place, hasAuthor, author_id, author_name) ==
    [kind |-> kind, id |-> id, title |-> title, date |-> date, owner |-> Str(owner),
     place |-> place, author_id |-> author_id, author_name |-> author_name,
     hasAuthor |-> hasAuthor]

\* Activity.__init__ (116-119): a str tool becomes a one-element list,
\* None leaves the empty list.
ToolList(tool) == IF IsStr(tool) THEN <<tool>> ELSE <<>>

\* An activity whose tool list is `tools` (a list argument is kept as it is).
Activity(kind, refersTo, institute, person, tools, start, end) ==
    [kind |-> kind, refersTo |-> refersTo, institute |-> institute, person |-> person,
     tool |-> tools, start |-> start, end |-> end]

\* Only Acquisition carries a technique.
Acquisition(refersTo, institute, technique, person, start, end, tools) ==
    [kind |-> STR_Acquisition, refersTo |-> refersTo, institute |-> institute,
     person |-> person, tool |-> tools, start |-> start, end |-> end,
     technique |-> technique]

ObjectClasses ==
    {STR_NauticalChart, STR_ManuscriptPlate, STR_ManuscriptVolume, STR_PrintedVolume,
     STR_PrintedMaterial, STR_Herbarium, STR_Specimen, STR_Painting, STR_Model, STR_Map}

ActivityClasses ==
    {STR_Acquisition, STR_Processing, STR_Modelling, STR_Optimising, STR_Exporting}

ActivityTables ==
    <<STR_Acquisition, STR_Processing, STR_Modelling, STR_Optimising, STR_Exporting>>

(***************************************************************************)
(* The metadata graph.  MetadataUploadHandler.pushDataToDb turns the rows  *)
(* of a catalogue into one node per object (base_url + Id) and one node    *)
(* per author (base_url + name); a store holds the nodes of its graph.     *)
(***************************************************************************)
AuthorIRI(name) == base_url \o Replace(Replace(name, <<" ">>, <<"_">>), <<",">>, <<>>)

ObjectNode(o) ==
    [uri |-> base_url \o o.id, type |-> SCHEMA_NS \o o.type, identifier |-> o.id,
     name |-> o.title, label |-> Unbound, date |-> o.date, owner |-> o.owner,
     place |-> o.place,
     creators |-> MapSeq(Len(o.authors), [i \in 1..Len(o.authors) |-> AuthorIRI(o.authors[i].name)])]

AuthorNode(a) ==
    [uri |-> AuthorIRI(a.name), type |-> SCHEMA_NS \o STR_Author, identifier |-> a.id,
     name |-> Unbound, label |-> a.name, date |-> Unbound, owner |-> Unbound,
     place |-> Unbound, creators |-> <<>>]

\* The elements of s without repetition, in order of first occurrence
\* (a graph is a set of triples; SELECT DISTINCT).
RECURSIVE Distinct(_)
Distinct(s) ==
    IF s = <<>> THEN <<>>
    ELSE LET rest == Distinct(SubSeq(s, 1, Len(s) - 1))
             last == s[Len(s)]
         IN  IF \E i \in 1..Len(rest) : rest[i] = last THEN rest ELSE Append(rest, last)

Nodes(objs) ==
    LET objectNodes == MapSeq(Len(objs), [i \in 1..Len(objs) |-> ObjectNode(objs[i])])
        authorNodes ==
            Flatten(MapSeq(Len(objs), [i \in 1..Len(objs) |->
                MapSeq(Len(objs[i].authors),
                       [j \in 1..Len(objs[i].authors) |-> AuthorNode(objs[i].authors[j])])]))
    IN  Distinct(objectNodes \o authorNodes)

NodeAt(store, uri) ==
    LET ns == store.nodes IN ns[CHOOSE i \in 1..Len(ns) : ns[i].uri = uri]

(***************************************************************************)
(* Tables.  A handler returns a pandas DataFrame, modelled as the sequence *)
(* of its rows; a row is a record over the query's variables whose cell is *)
(* Unbound where the row binds nothing.  A column exists only if some row  *)
(* binds it: row.get(col) is None for a column that does not exist and NaN *)
(* for a cell the row leaves unbound in a column that does.                *)
(***************************************************************************)
ColumnExists(df, col) ==
    \E k \in 1..Len(df) : col \in DOMAIN df[k] /\ df[k][col] # Unbound

Cell(df, i, col) ==
    IF ~ColumnExists(df, col) THEN None
    ELSE IF df[i][col] = Unbound THEN NaN
    ELSE df[i][col]

(***************************************************************************)
(* Backend contents.  Each world fixes what the two metadata endpoints and *)
(* the two relational files hold; the contents overlap between handlers.   *)
(***************************************************************************)
Author(name, id) == [name |-> name, id |-> id]

Object(id, type, title, date, owner, place, authors) ==
    [id |-> id, type |-> type, title |-> title, date |-> date, owner |-> owner,
     place |-> place, authors |-> authors]

AcquisitionRow(object_id, institute, person, technique, tool, start_date, end_date) ==
    [object_id |-> object_id, responsible_institute |-> institute,
     responsible_person |-> person, technique |-> technique, tool |-> tool,
     start_date |-> start_date, end_date |-> end_date]

ActivityRow(object_id, institute, person, tool, start_date, end_date) ==
    [object_id |-> object_id, responsible_institute |-> institute,
     responsible_person |-> person, tool |-> tool,
     start_date |-> start_date, end_date |-> end_date]

\* An endpoint after pushDataToDb has uploaded the catalogue `objects`.
MetaStoreOf(objects) ==
    [db_path |-> BLAZEGRAPH_URL, nodes |-> Nodes(objects), fault |-> "none"]

ProcStoreOf(acquisition, processing, modelling, optimising, exporting) ==
    [db_path |-> SQLITE_FILE_PATH,
     tables |-> <<acquisition, processing, modelling, optimising, exporting>>,
     fault |-> "none"]

\* A backend that fails: an endpoint that answers with a status other than
\* 200 ("status"), cannot be connected to ("transport") or answers with
\* something that is not JSON ("malformed"); a file that cannot be opened
\* ("connect") or a database on which the query fails ("sql").  Nothing can
\* be read from it.
MetaStoreFailing(fault) == [db_path |-> BLAZEGRAPH_URL, nodes |-> <<>>, fault |-> fault]

ProcStoreFailing(fault) ==
    [db_path |-> SQLITE_FILE_PATH, tables |-> <<<<>>, <<>>, <<>>, <<>>, <<>>>>,
     fault |-> fault]

Mona == Object(id_obj1, STR_Painting, t_Mona, d_1503, o_MUSEO, p_Paris, <<Author(n_Leo, id_VIAF1)>>)
Lisa == Object(id_obj1, STR_Painting, t_Lisa, d_1500_1510, o_Louvre, p_Paris, <<Author(n_Leonardo, id_VIAF1)>>)
MonaBook == Object(id_obj1, STR_Book, t_Mona, d_1503, o_MUSEO, p_Paris, <<Author(n_Leo, id_VIAF1)>>)
Atlas == Object(id_obj2, STR_Map, t_Atlas, d_1500_1510, o_Louvre, p_Bologna, <<Author(n_Anon, STR_noID), Author(n_Ugo, id_ulan2)>>)
Globe == Object(id_obj3, STR_Model, t_Globe, STR_Unknown, o_MUSEO, p_Bologna, <<>>)
Sketch == Object(id_obj3, STR_Painting, t_Atlas, d_1503, o_Louvre, p_Paris, <<Author(n_Leonardo, id_VIAF1)>>)
Plate == Object(id_VIAF7, STR_ManuscriptPlate, t_Globe, d_1503, o_Louvre, p_Paris, <<Author(n_Ida, id_ISNI4)>>)

WorldA ==
    [meta |-> [M1 |-> MetaStoreOf(<<Mona, Atlas>>), M2 |-> MetaStoreOf(<<Lisa, Globe>>)],
     proc |-> [P1 |-> ProcStoreOf(
                        <<AcquisitionRow(id_obj1, i_Uni, r_Ann, q_Xray, l_Scanner, dt_20210501, dt_20210510),
                          AcquisitionRow(id_obj2, i_Lab, r_Bob, q_Photo, None, <<>>, dt_20190201)>>,
                        <<ActivityRow(id_obj1, i_Lab, r_Bob, l_SCAN, dt_20210510, <<>>)>>,
                        <<>>, <<>>, <<>>),
               P2 |-> ProcStoreOf(
                        <<AcquisitionRow(id_obj3, i_Uni, None, q_Xray, l_Drone, dt_20190101, dt_20190201),
                          AcquisitionRow(id_obj1, i_Lab, r_Ann, q_Xray, l_scan, dt_20200101, dt_20210501)>>,
                        <<>>, <<>>, <<>>,
                        <<ActivityRow(id_obj9, i_Uni, r_Ann, l_Lens, dt_20200101, dt_20210501)>>)]]

WorldB ==
    [meta |-> [M1 |-> MetaStoreOf(<<MonaBook, Plate>>), M2 |-> MetaStoreOf(<<Lisa, Atlas, Sketch>>)],
     proc |-> [P1 |-> ProcStoreOf(<<>>, <<>>, <<>>, <<>>, <<>>),
               P2 |-> ProcStoreOf(
                        <<AcquisitionRow(id_obj1, i_Uni, r_Ann, q_Photo, l_Scanner, dt_20190101, dt_20190201),
                          AcquisitionRow(id_obj3, i_Uni, r_Ann, q_Photo, l_Scanner, dt_20200101, dt_20210501)>>,
                        <<>>,
                        <<ActivityRow(STR_noID, i_Lab, r_Bob, l_Lens, dt_20210501, dt_20210510)>>,
                        <<ActivityRow(id_VIAF1, i_Lab, None, None, <<>>, <<>>)>>,
                        <<>>)]]

WorldC ==
    [meta |-> [M1 |-> MetaStoreOf(<<>>), M2 |-> MetaStoreOf(<<Mona, Atlas, Globe>>)],
     proc |-> [P1 |-> ProcStoreOf(
                        <<AcquisitionRow(id_obj2, i_Uni, r_Bob, q_Xray, l_Lens, dt_20200101, dt_20210510),
                          AcquisitionRow(id_VIAF1, i_Lab, r_Bob, q_Xray, l_Lens, dt_20200101, dt_20210510)>>,
                        <<>>,
                        <<ActivityRow(id_obj9, i_Lab, r_Bob, l_Lens, None, None)>>,
                        <<>>, <<>>),
               P2 |-> ProcStoreOf(
                        <<AcquisitionRow(id_obj2, i_Lab, r_Ann, q_Xray, l_Scanner, dt_20210501, dt_20210510),
                          AcquisitionRow(id_obj3, i_Lab, r_Ann, q_Photo, l_Scanner, dt_20210501, dt_20210510)>>,
                        <<ActivityRow(id_obj3, i_Uni, r_Bob, l_SCAN, dt_20190101, dt_20190201)>>,
                        <<>>, <<>>, <<>>)]]

\* A catalogue whose dates are a range, a year, a year inside a text, a
\* text without a year and no date at all.
DatedWorld ==
    [meta |-> [M1 |-> MetaStoreOf(
                        <<Object(id_obj1, STR_NauticalChart, t_Atlas, d_1500_1510, o_Louvre, p_Paris, <<>>),
                          Object(id_obj2, STR_Herbarium, t_Mona, d_1503, o_Louvre, p_Paris,
                                 <<Author(n_Leo, id_VIAF1), Author(n_Ugo, id_ulan2)>>),
                          Object(id_obj3, STR_PrintedVolume, t_Lisa, d_ca_1520, o_MUSEO, p_Bologna, <<>>),
                          Object(id_obj4, STR_Specimen, t_Globe, STR_Unknown, o_MUSEO, p_Bologna, <<>>),
                          Object(id_obj9, STR_Specimen, t_Globe, Unbound, o_MUSEO, p_Bologna, <<>>)>>),
               M2 |-> MetaStoreOf(<<>>)],
     proc |-> [P1 |-> ProcStoreOf(<<>>, <<>>, <<>>, <<>>, <<>>),
               P2 |-> ProcStoreOf(<<>>, <<>>, <<>>, <<>>, <<>>)]]

\* World A with its first metadata endpoint and its first relational file
\* failing.
FaultWorld(metaFault, procFault) ==
    [meta |-> [M1 |-> MetaStoreFailing(metaFault), M2 |-> WorldA.meta.M2],
     proc |-> [P1 |-> ProcStoreFailing(procFault), P2 |-> WorldA.proc.P2]]

\* The worlds whose backends all answer.
HealthyWorlds == {WorldA, WorldB, WorldC}

\* The worlds in which a first backend fails.
FaultyWorlds ==
    {FaultWorld("status", "connect"), FaultWorld("transport", "sql"),
     FaultWorld("malformed", "sql")}

\* metadata handler -> its db_path and the nodes of its graph
metaStore == world.meta

\* process handler -> its db_path and its five tables
procStore == world.proc


(***************************************************************************)
(* QueryHandler.getById (impl.py 412-484).                                 *)
(***************************************************************************)
Call(handler, method, a, query) ==
    [handler |-> handler, method |-> method, arg |-> a, query |-> query]

\* A variant that takes only the VIAF and ULAN schemes for person
\* identifiers; the properties of getById are checked to tell it apart.
HasKnownScheme(input_id) ==
    \/ StartsWith(Upper(input_id), STR_VIAF \o <<":">>)
    \/ StartsWith(Upper(input_id), STR_ULAN \o <<":">>)

\* is_person_id = ":" in input_id
IsPersonId(input_id) == Contains(input_id, <<":">>)

\* The guard of line 414: a handler without an http(s) endpoint asks nothing.
HasEndpoint(store) ==
    /\ Truthy(store.db_path)
    /\ (StartsWith(store.db_path, HTTP_PREFIX) \/ StartsWith(store.db_path, HTTPS_PREFIX))

\* person_query: every node whose schema:identifier is the input, with its
\* rdfs:label and identifier where present.
PersonQuery(store, input_id) ==
    LET hits == SelectSeq(store.nodes, LAMBDA n : n.identifier = input_id)
    IN  Distinct(MapSeq(Len(hits), [i \in 1..Len(hits) |->
            [authorEntity |-> hits[i].uri, authorName |-> hits[i].label,
             authorId |-> hits[i].identifier]]))

\* The creators of a node that have both a label and an identifier.
NamedCreators(store, n) ==
    LET cs == MapSeq(Len(n.creators), [i \in 1..Len(n.creators) |-> NodeAt(store, n.creators[i])])
    IN  SelectSeq(cs, LAMBDA c : c.label # Unbound /\ c.identifier # Unbound)

\* REPLACE(STR(COALESCE(?type, "")), "https://schema.org/", "")
TypeLabel(n) == Replace(IF n.type = Unbound THEN <<>> ELSE n.type, SCHEMA_NS, <<>>)

\* object_query: every node whose schema:identifier is the input; ?label is
\* its schema:name, else its rdfs:label; one row per named creator.
ObjectQueryRow(n, a) ==
    [CulturalObject |-> n.uri,
     label |-> IF n.name # Unbound THEN n.name ELSE n.label,
     type_label |-> TypeLabel(n), date |-> n.date, owner |-> n.owner, place |-> n.place,
     authorName |-> a.label, authorId |-> a.identifier]

NoCreator == [label |-> Unbound, identifier |-> Unbound]

ObjectQuery(store, input_id) ==
    LET hits == SelectSeq(store.nodes, LAMBDA n : n.identifier = input_id)
        rowsOf(n) ==
            LET cs == NamedCreators(store, n)
            IN  IF cs = <<>> THEN <<ObjectQueryRow(n, NoCreator)>>
                ELSE MapSeq(Len(cs), [j \in 1..Len(cs) |-> ObjectQueryRow(n, cs[j])])
    IN  Distinct(Flatten(MapSeq(Len(hits), [i \in 1..Len(hits) |-> rowsOf(hits[i])])))

\* Which query getById sends for input_id to handler h: none without an
\* endpoint, else the person-shaped or the object-shaped one.
QueryIssued(h, input_id) ==
    IF ~HasEndpoint(metaStore[h]) THEN "none"
    ELSE IF IsPersonId(input_id) THEN "person" ELSE "object"

getById(h, input_id) ==
    LET q == QueryIssued(h, input_id)
    IN  IF q = "none" THEN <<>>
        ELSE IF q = "person" THEN PersonQuery(metaStore[h], input_id)
        ELSE ObjectQuery(metaStore[h], input_id)

(***************************************************************************)
(* MetadataQueryHandler (impl.py 486-721).                                 *)
(***************************************************************************)
\* getAllPeople: the nodes of type schema:Author with a label and an identifier.
MQ_getAllPeople(h) ==
    LET hits == SelectSeq(metaStore[h].nodes,
                          LAMBDA n : /\ n.type = SCHEMA_NS \o STR_Author
                                     /\ n.label # Unbound /\ n.identifier # Unbound)
    IN  Distinct(MapSeq(Len(hits), [i \in 1..Len(hits) |->
            [authorName |-> hits[i].label, authorId |-> hits[i].identifier]]))

\* A creator of the listing queries: identifier and label are both optional.
ListingRow(n, a) ==
    [id |-> n.identifier, title |-> n.name, date |-> n.date, owner |-> n.owner,
     place |-> n.place, author_id |-> a.identifier, author_name |-> a.label,
     type_name |-> TypeLabel(n)]

ListingRows(store, n) ==
    IF n.creators = <<>> THEN <<ListingRow(n, NoCreator)>>
    ELSE MapSeq(Len(n.creators),
                [j \in 1..Len(n.creators) |-> ListingRow(n, NodeAt(store, n.creators[j]))])

\* getAllCulturalHeritageObjects: every typed node whose type is not Author.
MQ_getAllCulturalHeritageObjects(h) ==
    LET store == metaStore[h]
        hits == SelectSeq(store.nodes,
                          LAMBDA n : n.type # Unbound /\ TypeLabel(n) # STR_Author)
    IN  Distinct(Flatten(MapSeq(Len(hits), [i \in 1..Len(hits) |-> ListingRows(store, hits[i])])))

\* The authors getCulturalHeritageObjectsAuthoredBy starts from: the nodes
\* whose identifier is the input, and the creators of such nodes.
AuthoredByAuthors(store, input_id) ==
    LET hits == SelectSeq(store.nodes, LAMBDA n : n.identifier = input_id)
    IN  {hits[i].uri : i \in 1..Len(hits)}
        \cup UNION {{hits[i].creators[j] : j \in 1..Len(hits[i].creators)} : i \in 1..Len(hits)}

\* One row per object and matched creator; ?name and ?author_id are bound
\* together or not at all.
AuthoredByRow(n, a) ==
    LET named == a.label # Unbound /\ a.identifier # Unbound
    IN  [type_name |-> TypeLabel(n), id |-> n.identifier, title |-> n.name,
         date |-> n.date, owner |-> n.owner, place |-> n.place,
         name |-> IF named THEN a.label ELSE Unbound,
         author_id |-> IF named THEN a.identifier ELSE Unbound]

\* getCulturalHeritageObjectsAuthoredBy: the objects created by one of those
\* authors that have a type, a name, an identifier, a date, an owner and a
\* place.
MQ_getCulturalHeritageObjectsAuthoredBy(h, input_id) ==
    LET store == metaStore[h]
        authors == AuthoredByAuthors(store, input_id)
        hits == SelectSeq(store.nodes,
                    LAMBDA n : /\ n.type # Unbound /\ n.name # Unbound
                               /\ n.identifier # Unbound /\ n.date # Unbound
                               /\ n.owner # Unbound /\ n.place # Unbound)
        rowsOf(n) ==
            LET cs == SelectSeq(n.creators, LAMBDA c : c \in authors)
            IN  MapSeq(Len(cs), [j \in 1..Len(cs) |-> AuthoredByRow(n, NodeAt(store, cs[j]))])
    IN  Distinct(Flatten(MapSeq(Len(hits), [i \in 1..Len(hits) |-> rowsOf(hits[i])])))

\* getAllCulturalHeritageObjectByOwner: the listing restricted to the rows
\* whose owner is bound and matches ownerName without regard to case
\* (REGEX with flag "i"; ownerName is taken to hold no regex operator).
MQ_getAllCulturalHeritageObjectByOwner(h, ownerName) ==
    SelectSeq(MQ_getAllCulturalHeritageObjects(h),
              LAMBDA r : r.owner # Unbound /\ Contains(Lower(r.owner), Lower(ownerName)))

\* A variant of the effective year that prefers the start of a range; the
\* property of the created-after query is checked to tell it apart.
StartYearFirst(date) ==
    IF date = Unbound THEN NoInteger
    ELSE LET startYear == XsdInteger(DigitsOnly(StrBefore(date, "-")))
             endYear == XsdInteger(DigitsOnly(StrAfter(date, "-")))
         IN  IF startYear # NoInteger THEN startYear
             ELSE IF endYear # NoInteger THEN endYear
             ELSE XsdInteger(DigitsOnly(date))

\* ?effectiveEnd (672-679): the first that is bound of the digits after the
\* first "-", the digits before it, and the digits of the whole text;
\* nothing when ?date is unbound.
EffectiveEnd(date) ==
    IF date = Unbound THEN NoInteger
    ELSE LET startYear == XsdInteger(DigitsOnly(StrBefore(date, "-")))
             endYear == XsdInteger(DigitsOnly(StrAfter(date, "-")))
         IN  IF endYear # NoInteger THEN endYear
             ELSE IF startYear # NoInteger THEN startYear
             ELSE XsdInteger(DigitsOnly(date))

\* getAllCulturalHeritageObjectCreatedAfter: the listing restricted to the
\* rows whose effective year is bound and greater than year.
MQ_getAllCulturalHeritageObjectCreatedAfter(h, year) ==
    SelectSeq(MQ_getAllCulturalHeritageObjects(h),
              LAMBDA r : EffectiveEnd(r.date) # NoInteger /\ EffectiveEnd(r.date) > year)

(***************************************************************************)
(* Backend failure.  What a handler operation gives its caller: the table  *)
(* it returns, or the exception that leaves it.                            *)
(***************************************************************************)
Returned(table) == [table |-> table, raised |-> "none"]

Raising(error) == [table |-> <<>>, raised |-> error]

\* getById (468-484): requests.get is not guarded, so a transport fault
\* leaves as ConnectionError; a status other than 200 gives the empty
\* table; response.json() is not guarded either.
getByIdOutcome(h, input_id) ==
    LET fault == metaStore[h].fault
    IN  IF ~HasEndpoint(metaStore[h]) THEN Returned(<<>>)
        ELSE IF fault = "transport" THEN Raising("ConnectionError")
        ELSE IF fault = "status" THEN Returned(<<>>)
        ELSE IF fault = "malformed" THEN Raising("JSONDecodeError")
        ELSE Returned(getById(h, input_id))

\* _execute_query (491-505) guards nothing: sparql.query() raises on a
\* status other than 200 and on a transport fault, convert() on a response
\* that is not JSON.
ExecuteQueryOutcome(h, table) ==
    LET fault == metaStore[h].fault
    IN  IF fault = "status" THEN Raising("HTTPError")
        ELSE IF fault = "transport" THEN Raising("URLError")
        ELSE IF fault = "malformed" THEN Raising("JSONDecodeError")
        ELSE Returned(table)

(***************************************************************************)
(* ProcessDataQueryHandler (impl.py 723-926).  The five tables are read as *)
(* one UNION ALL, in the order Acquisition, Processing, Modelling,         *)
(* Optimising, Exporting, each row tagged with its table's name; technique *)
(* is NULL outside Acquisition.                                            *)
(***************************************************************************)
TaggedRow(r, tag) ==
    [object_id |-> r.object_id, responsible_institute |-> r.responsible_institute,
     responsible_person |-> r.responsible_person,
     technique |-> IF tag = STR_Acquisition THEN r.technique ELSE None,
     tool |-> r.tool, start_date |-> r.start_date, end_date |-> r.end_date,
     type |-> tag]

\* SQL `a || b`: NULL when either side is NULL.
Concat(a, b) == IF a = None \/ b = None THEN None ELSE a \o b

\* The five SELECTs of one handler, before their WHERE clauses.
UnionAll(h) ==
    LET tables == procStore[h].tables
        from(k) ==
            MapSeq(Len(tables[k]), [i \in 1..Len(tables[k]) |->
                TaggedRow(tables[k][i], ActivityTables[k])])
    IN  from(1) \o from(2) \o from(3) \o from(4) \o from(5)

PQ_getAllActivities(h) == UnionAll(h)

PQ_getActivitiesByResponsibleInstitution(h, institution_str) ==
    SelectSeq(UnionAll(h), LAMBDA r : Like(r.responsible_institute, institution_str))

PQ_getActivitiesByResponsiblePerson(h, responsible_person_str) ==
    SelectSeq(UnionAll(h), LAMBDA r : Like(r.responsible_person, responsible_person_str))

\* WHERE start_date >= ? AND start_date <> ''
StartedAfterWhere(r, start_date) ==
    r.start_date # None /\ LexLeq(start_date, r.start_date) /\ r.start_date # <<>>

\* A variant without the test for the empty text; the date filter property
\* is checked to tell it apart.
EndedBeforeAnyText(r, end_date) ==
    r.end_date # None /\ LexLeq(r.end_date, end_date)

\* WHERE end_date <= ? AND end_date <> ''
EndedBeforeWhere(r, end_date) ==
    r.end_date # None /\ LexLeq(r.end_date, end_date) /\ r.end_date # <<>>

\* The two date filters also select object_id || '|<table>|' || date AS id.
WithId(rows, dateCol) ==
    MapSeq(Len(rows), [i \in 1..Len(rows) |->
        [id |-> Concat(Concat(rows[i].object_id, <<"|">> \o rows[i].type \o <<"|">>),
                       rows[i][dateCol]),
         object_id |-> rows[i].object_id,
         responsible_institute |-> rows[i].responsible_institute,
         responsible_person |-> rows[i].responsible_person,
         technique |-> rows[i].technique, tool |-> rows[i].tool,
         start_date |-> rows[i].start_date, end_date |-> rows[i].end_date,
         type |-> rows[i].type]])

PQ_getActivitiesStartedAfter(h, start_date) ==
    WithId(SelectSeq(UnionAll(h), LAMBDA r : StartedAfterWhere(r, start_date)), "start_date")

PQ_getActivitiesEndedBefore(h, end_date) ==
    WithId(SelectSeq(UnionAll(h), LAMBDA r : EndedBeforeWhere(r, end_date)), "end_date")

\* SELECT * FROM acquisition WHERE technique LIKE ?, then df["type"] = "Acquisition".
PQ_getAcquisitionsByTechnique(h, technique_str) ==
    IF ~Truthy(procStore[h].db_path) THEN <<>>
    ELSE LET rows == SelectSeq(procStore[h].tables[1],
                               LAMBDA r : Like(r.technique, technique_str))
         IN  MapSeq(Len(rows), [i \in 1..Len(rows) |-> TaggedRow(rows[i], STR_Acquisition)])

\* The try blocks of the process queries (730-750 and alike): sqlite3.Error
\* is caught, so a file that cannot be opened gives the empty table; a query
\* that fails inside pd.read_sql_query leaves as pandas' DatabaseError,
\* which is not a sqlite3.Error.
ReadSqlOutcome(h, table) ==
    LET fault == procStore[h].fault
    IN  IF fault = "connect" THEN Returned(<<>>)
        ELSE IF fault = "sql" THEN Raising("DatabaseError")
        ELSE Returned(table)

(***************************************************************************)
(* BasicMashup.getEntityById (impl.py 950-976).  A mashup method is        *)
(* modelled by the record of the value it returns and the handler calls    *)
(* it makes, in order.                                                     *)
(***************************************************************************)
Values(runs) == MapSeq(Len(runs), [i \in 1..Len(runs) |-> runs[i].value])

CallsOf(runs) == Flatten(MapSeq(Len(runs), [i \in 1..Len(runs) |-> runs[i].calls]))

\* The for loop from position i on: hit is the position of the handler the
\* loop breaks at, the first whose table is not empty, and df its table;
\* hit is 0 when the loop runs to its else branch.
\* A variant that asks every handler and keeps the last non-empty table;
\* the properties of getEntityById are checked to tell it apart.
LastNonEmpty(mq, id_string) ==
    LET hits == {i \in 1..Len(mq) : getById(mq[i], id_string) # <<>>}
    IN  IF hits = {} THEN [hit |-> 0, df |-> <<>>]
        ELSE LET last == CHOOSE i \in hits : \A j \in hits : j <= i
             IN  [hit |-> last, df |-> getById(mq[last], id_string)]

RECURSIVE Consult(_, _, _)
\* `if df is not None and not df.empty: break`
Break(mq, id_string, i, df) ==
    IF df # <<>> THEN [hit |-> i, df |-> df] ELSE Consult(mq, id_string, i + 1)

Consult(mq, id_string, i) ==
    IF i > Len(mq) THEN [hit |-> 0, df |-> <<>>]
    ELSE Break(mq, id_string, i, getById(mq[i], id_string))

FirstNonEmpty(mq, id_string) == Consult(mq, id_string, 1)

\* A variant that takes every scheme for a person's; the classification
\* property is checked to tell it apart.
HasAnyScheme(id_string) == Contains(id_string, <<":">>)

\* prefix in ["VIAF", "ULAN"], prefix being the upper-cased text before the
\* first ":" and None without a ":".
HasPersonPrefix(id_string) ==
    /\ Contains(id_string, <<":">>)
    /\ Upper(SplitHead(id_string, ":")) \in {STR_VIAF, STR_ULAN}

\* The entity built from the first row of df.
EntityFromRow(df, id_string) ==
    IF HasPersonPrefix(id_string)
    THEN Person(id_string,
                Or(Or(Cell(df, 1, "authorName"), Cell(df, 1, "label")), STR_Unknown))
    ELSE CulturalHeritageObject(
            STR_CulturalHeritageObject,
            Or(Cell(df, 1, "CulturalObject"), id_string),
            Or(Cell(df, 1, "label"), STR_Unknown),
            Cell(df, 1, "date"), Cell(df, 1, "owner"), Cell(df, 1, "place"),
            <<>>, Cell(df, 1, "authorId"), Cell(df, 1, "authorName"))

\* What getEntityById returns and the getById calls it has made when the
\* loop ended as `found` says.
EntityFound(mq, id_string, found) ==
    LET n == IF found.hit = 0 THEN Len(mq) ELSE found.hit
    IN  [value |-> IF found.hit = 0 THEN NoEntity ELSE EntityFromRow(found.df, id_string),
         calls |-> MapSeq(n, [i \in 1..n |->
                      Call(mq[i], "getById", id_string, QueryIssued(mq[i], id_string))])]

getEntityById(mq, id_string) == EntityFound(mq, id_string, FirstNonEmpty(mq, id_string))

(***************************************************************************)
(* BasicMashup.getAllPeople (impl.py 978-991).                             *)
(***************************************************************************)
\* The rows of every handler's table, handlers in registration order.
PeopleRows(mq) ==
    Flatten(MapSeq(Len(mq), [k \in 1..Len(mq) |->
        LET df == MQ_getAllPeople(mq[k])
        IN  MapSeq(Len(df), [i \in 1..Len(df) |->
                Person(Cell(df, i, "authorId"), Cell(df, i, "authorName"))])]))

\* A variant without the processed_ids test; the deduplication property is
\* checked to tell it apart.
KeepAll(people) == people

\* The loop body: a person is appended unless its id is in processed_ids.
RECURSIVE KeepFirstById(_)
KeepFirstById(people) ==
    IF people = <<>> THEN <<>>
    ELSE LET kept == KeepFirstById(SubSeq(people, 1, Len(people) - 1))
             p == people[Len(people)]
         IN  IF \E i \in 1..Len(kept) : kept[i].id = p.id THEN kept ELSE Append(kept, p)

getAllPeople(mq) ==
    [value |-> KeepFirstById(PeopleRows(mq)),
     calls |-> MapSeq(Len(mq), [k \in 1..Len(mq) |->
                  Call(mq[k], "getAllPeople", None, "none")])]

(***************************************************************************)
(* BasicMashup.getAllCulturalHeritageObjects (impl.py 993-1047).           *)
(***************************************************************************)
\* row.get(col, default): the default only when the column does not exist.
CellOr(df, i, col, default) ==
    IF ColumnExists(df, col) THEN Cell(df, i, col) ELSE default

\* A variant that gives the object the authors of all the rows of its
\* identifier; the one-author property is checked to tell it apart.
ObjectWithAllAuthors(df, i) ==
    LET same == SelectSeq([j \in 1..Len(df) |-> j],
                          LAMBDA j : Str(Cell(df, j, "id")) = Str(Cell(df, i, "id")))
        authorOf(j) ==
            IF NotNa(Cell(df, j, "author_id")) /\ NotNa(Cell(df, j, "author_name"))
            THEN <<Person(Str(Cell(df, j, "author_id")), Cell(df, j, "author_name"))>>
            ELSE <<>>
    IN  [obj_identifier |-> Str(Cell(df, i, "id")),
         type_name |-> Cell(df, i, "type_name"),
         object |-> CulturalHeritageObject(Cell(df, i, "type_name"), Str(Cell(df, i, "id")),
                        CellOr(df, i, "title", <<>>), Cell(df, i, "date"),
                        IF NotNa(Cell(df, i, "owner")) THEN Str(Cell(df, i, "owner")) ELSE None,
                        Cell(df, i, "place"),
                        Flatten(MapSeq(Len(same), [k \in 1..Len(same) |-> authorOf(same[k])])),
                        None, None)]

\* What lines 1016-1042 compute for one row: the identifier, the type tag
\* and the object the row would give.
ObjectOfRow(df, i) ==
    LET obj_identifier == Str(Cell(df, i, "id"))
        owner == IF NotNa(Cell(df, i, "owner")) THEN Str(Cell(df, i, "owner")) ELSE None
        author_id ==
            IF NotNa(Cell(df, i, "author_id")) THEN Str(Cell(df, i, "author_id")) ELSE None
        author_name ==
            IF NotNa(Cell(df, i, "author_name")) THEN Cell(df, i, "author_name") ELSE None
        hasAuthor ==
            IF Truthy(author_id) /\ Truthy(author_name)
            THEN <<Person(author_id, author_name)>> ELSE <<>>
        type_name == Cell(df, i, "type_name")
    IN  [obj_identifier |-> obj_identifier,
         type_name |-> type_name,
         object |-> CulturalHeritageObject(type_name, obj_identifier,
                        CellOr(df, i, "title", <<>>), Cell(df, i, "date"), owner,
                        Cell(df, i, "place"), hasAuthor, None, None)]

\* A variant that reads the handlers latest first; the first-handler-wins
\* property is checked to tell it apart.
ObjectRowsLatestFirst(mq) ==
    Flatten(MapSeq(Len(mq), [k \in 1..Len(mq) |->
        LET df == MQ_getAllCulturalHeritageObjects(mq[Len(mq) + 1 - k])
        IN  MapSeq(Len(df), [i \in 1..Len(df) |-> ObjectOfRow(df, i)])]))

ObjectRows(mq) ==
    Flatten(MapSeq(Len(mq), [k \in 1..Len(mq) |->
        LET df == MQ_getAllCulturalHeritageObjects(mq[k])
        IN  MapSeq(Len(df), [i \in 1..Len(df) |-> ObjectOfRow(df, i)])]))

\* The loop body: a row is skipped when its identifier is empty or already
\* in processed_ids; otherwise an object is appended, and its identifier
\* added to processed_ids, only when the type tag is in class_map.
RECURSIVE KeepFirstObjects(_)
KeepFirstObjects(rows) ==
    IF rows = <<>> THEN <<>>
    ELSE LET kept == KeepFirstObjects(SubSeq(rows, 1, Len(rows) - 1))
             r == rows[Len(rows)]
         IN  IF ~Truthy(r.obj_identifier) \/ \E i \in 1..Len(kept) : kept[i].id = r.obj_identifier
             THEN kept
             ELSE IF Truthy(r.type_name) /\ r.type_name \in ObjectClasses
                  THEN Append(kept, r.object)
                  ELSE kept

getAllCulturalHeritageObjects(mq) ==
    [value |-> KeepFirstObjects(ObjectRows(mq)),
     calls |-> MapSeq(Len(mq), [k \in 1..Len(mq) |->
                  Call(mq[k], "getAllCulturalHeritageObjects", None, "none")])]

(***************************************************************************)
(* BasicMashup.getCulturalHeritageObjectsAuthoredBy (impl.py 1063-1114).   *)
(***************************************************************************)
\* The built-in function id, which the name `id` denotes in the method: no
\* local of that name is assigned.
BuiltinId == <<"<built-in function id>">>

\* Lines 1074-1110 for one row: `id` is passed as the identifier.  The
\* sixth positional argument of the constructor is `name`, so the author
\* list built in 1084-1086 is not stored and the object has no author.
AuthoredObjectOfRow(df, i) ==
    CulturalHeritageObject(Cell(df, i, "type_name"), BuiltinId, Cell(df, i, "title"),
                           Str(Cell(df, i, "date")), Str(Cell(df, i, "owner")),
                           Cell(df, i, "place"), <<>>, None, None)

\* The first handler alone is asked; a row whose type is none of the ten
\* classes is skipped.
getCulturalHeritageObjectsAuthoredBy(mq, input_id) ==
    IF mq = <<>> THEN [value |-> <<>>, calls |-> <<>>]
    ELSE LET df == MQ_getCulturalHeritageObjectsAuthoredBy(mq[1], input_id)
             rows == SelectSeq([i \in 1..Len(df) |-> i],
                               LAMBDA i : Cell(df, i, "type_name") \in ObjectClasses)
         IN  [value |-> MapSeq(Len(rows), [k \in 1..Len(rows) |-> AuthoredObjectOfRow(df, rows[k])]),
              calls |-> <<Call(mq[1], "getCulturalHeritageObjectsAuthoredBy", input_id, "none")>>]

(***************************************************************************)
(* Activities from rows: the body shared by getAllActivities and the       *)
(* institution, person, started-after and ended-before filters             *)
(* (impl.py 1135-1163, 1182-1210, 1229-1257, 1340-1371, 1392-1423).        *)
(***************************************************************************)
\* A variant that gives every row the base class; the class selection
\* property is checked to tell it apart.
BaseClassOnly(activity_type) == STR_Activity

\* activity_classes.get(activity_type, Activity)
ActivityClass(activity_type) ==
    IF activity_type \in ActivityClasses THEN activity_type ELSE STR_Activity

\* The activity of row i of df when the join of its object_id gave `joined`.
ActivityJoined(df, i, joined) ==
    LET ObjClass == ActivityClass(Cell(df, i, "type"))
        tools == ToolList(Cell(df, i, "tool"))
    IN  [value |->
            IF ObjClass = STR_Acquisition
            THEN Acquisition(joined.value, Cell(df, i, "responsible_institute"),
                             Cell(df, i, "technique"), Cell(df, i, "responsible_person"),
                             Cell(df, i, "start_date"), Cell(df, i, "end_date"), tools)
            ELSE Activity(ObjClass, joined.value, Cell(df, i, "responsible_institute"),
                          Cell(df, i, "responsible_person"), tools,
                          Cell(df, i, "start_date"), Cell(df, i, "end_date")),
         calls |-> joined.calls]

\* The activity of row i of df, and the getById calls its join makes.
ActivityOfRow(mq, df, i) ==
    ActivityJoined(df, i, getEntityById(mq, Str(Cell(df, i, "object_id"))))

\* A variant that drops the rows whose object_id no handler resolves; the
\* unresolved-join property is checked to tell it apart.
ResolvedRowsOnly(mq, df) ==
    SelectSeq(MapSeq(Len(df), [i \in 1..Len(df) |-> ActivityOfRow(mq, df, i)]),
              LAMBDA run : run.value.refersTo # NoEntity)

\* One activity per row of df, in row order.
ActivitiesOfTable(mq, df) ==
    MapSeq(Len(df), [i \in 1..Len(df) |-> ActivityOfRow(mq, df, i)])

\* A variant that visits the handlers latest first; the fan-out order
\* property is checked to tell it apart.
ReverseOrder(pq) == MapSeq(Len(pq), [k \in 1..Len(pq) |-> Len(pq) + 1 - k])

\* `for handler in self.processQuery`: the positions visited, in order.
FanOutOrder(pq) == MapSeq(Len(pq), [k \in 1..Len(pq) |-> k])

\* The fan-out: tables[k] is the table of the k-th visited handler; each
\* handler is called once and its rows are joined before the next is called.
Collected(pq, method, a, order, made) ==
    [value |-> Values(Flatten(made)),
     calls |-> Flatten(MapSeq(Len(order), [k \in 1..Len(order) |->
                  <<Call(pq[order[k]], method, a, "none")>> \o CallsOf(made[k])]))]

FanOut(mq, pq, method, a, tables) ==
    Collected(pq, method, a, FanOutOrder(pq),
              MapSeq(Len(tables), [k \in 1..Len(tables) |-> ActivitiesOfTable(mq, tables[k])]))

getAllActivitiesTables(pq) ==
    LET order == FanOutOrder(pq)
    IN  MapSeq(Len(order), [k \in 1..Len(order) |-> PQ_getAllActivities(pq[order[k]])])

getAllActivities(mq, pq) ==
    FanOut(mq, pq, "getAllActivities", None, getAllActivitiesTables(pq))

getActivitiesByResponsibleInstitutionTables(pq, institute_name) ==
    LET order == FanOutOrder(pq)
    IN  MapSeq(Len(order), [k \in 1..Len(order) |->
            PQ_getActivitiesByResponsibleInstitution(pq[order[k]], institute_name)])

getActivitiesByResponsibleInstitution(mq, pq, institute_name) ==
    FanOut(mq, pq, "getActivitiesByResponsibleInstitution", institute_name,
           getActivitiesByResponsibleInstitutionTables(pq, institute_name))

getActivitiesByResponsiblePersonTables(pq, person_name) ==
    LET order == FanOutOrder(pq)
    IN  MapSeq(Len(order), [k \in 1..Len(order) |->
            PQ_getActivitiesByResponsiblePerson(pq[order[k]], person_name)])

getActivitiesByResponsiblePerson(mq, pq, person_name) ==
    FanOut(mq, pq, "getActivitiesByResponsiblePerson", person_name,
           getActivitiesByResponsiblePersonTables(pq, person_name))

getActivitiesStartedAfterTables(pq, date) ==
    LET order == FanOutOrder(pq)
    IN  MapSeq(Len(order), [k \in 1..Len(order) |->
            PQ_getActivitiesStartedAfter(pq[order[k]], date)])

getActivitiesStartedAfter(mq, pq, date) ==
    FanOut(mq, pq, "getActivitiesStartedAfter", date, getActivitiesStartedAfterTables(pq, date))

getActivitiesEndedBeforeTables(pq, date) ==
    LET order == FanOutOrder(pq)
    IN  MapSeq(Len(order), [k \in 1..Len(order) |->
            PQ_getActivitiesEndedBefore(pq[order[k]], date)])

getActivitiesEndedBefore(mq, pq, date) ==
    FanOut(mq, pq, "getActivitiesEndedBefore", date, getActivitiesEndedBeforeTables(pq, date))

(***************************************************************************)
(* BasicMashup.getActivitiesUsingTool (impl.py 1261-1322): the rows of the *)
(* first process handler's getAllActivities, filtered in Python.           *)
(***************************************************************************)
\* Two variants of the handlers a filter reads, every registered one and
\* the first alone; the properties of the tool and technique filters are
\* checked to tell each from what the method does.
EveryHandler(pq) == pq

FirstHandlerOnly(pq) == IF pq = <<>> THEN <<>> ELSE <<pq[1]>>

\* any(tool_name.lower() in t.lower() for t in tools)
ToolMatches(tools, tool_name) ==
    \E j \in 1..Len(tools) : Contains(Lower(tools[j]), Lower(tool_name))

\* The handlers getActivitiesUsingTool reads: processQuery[0] alone.
ToolHandlers(pq) == IF Len(pq) = 0 THEN <<>> ELSE <<pq[1]>>

\* The rows that pass the filter, each with the table it is a row of.
ToolRows(pq, tool_name) ==
    LET hs == ToolHandlers(pq)
        rowsOf(h) ==
            LET df == PQ_getAllActivities(h)
                keep == SelectSeq(MapSeq(Len(df), [i \in 1..Len(df) |-> i]),
                                  LAMBDA i : ToolMatches(ToolList(Cell(df, i, "tool")), tool_name))
            IN  MapSeq(Len(keep), [n \in 1..Len(keep) |-> [df |-> df, i |-> keep[n]]])
    IN  Flatten(MapSeq(Len(hs), [k \in 1..Len(hs) |-> rowsOf(hs[k])]))

\* One activity per row that passed the filter.
ToolActivities(mq, rows) ==
    MapSeq(Len(rows), [n \in 1..Len(rows) |-> ActivityOfRow(mq, rows[n].df, rows[n].i)])

ToolCollected(hs, made) ==
    [value |-> Values(made),
     calls |-> MapSeq(Len(hs), [k \in 1..Len(hs) |->
                  Call(hs[k], "getAllActivities", None, "none")])
               \o CallsOf(made)]

getActivitiesUsingTool(mq, pq, tool_name) ==
    ToolCollected(ToolHandlers(pq), ToolActivities(mq, ToolRows(pq, tool_name)))

(***************************************************************************)
(* BasicMashup.getAcquisitionsByTechnique (impl.py 1427-1479).             *)
(***************************************************************************)
\* The handlers getAcquisitionsByTechnique reads: `for handler in
\* self.processQuery`, every one of them.
TechniqueHandlers(pq) == pq

\* refersTo of a returned acquisition: the entity of the row's object_id, or
\* a placeholder object with that id when there is none or it is a Person.
TechniqueRefersTo(e, object_id) ==
    IF e = NoEntity \/ e.kind = STR_Person
    THEN CulturalHeritageObject(STR_CulturalHeritageObject, object_id, <<>>,
                                None, None, None, <<>>, None, None)
    ELSE e

\* The loop over the rows of df from row i on.  st.out is all_acquisitions,
\* st.processed_ids the object_ids already returned, st.calls the getById
\* calls made.  A row is joined when its object_id is truthy and not yet
\* processed; its activity is appended when it is an Acquisition.
TechniqueJoined(df, i, st, joined) ==
    LET activity_id == Cell(df, i, "object_id")
        ObjClass == ActivityClass(Cell(df, i, "type"))
        tools == ToolList(Cell(df, i, "tool"))
        activity ==
            Acquisition(TechniqueRefersTo(joined.value, activity_id),
                        Cell(df, i, "responsible_institute"),
                        CellOr(df, i, "technique", STR_Unknown),
                        Cell(df, i, "responsible_person"),
                        Cell(df, i, "start_date"), Cell(df, i, "end_date"), tools)
    IN  IF ObjClass = STR_Acquisition
        THEN [out |-> Append(st.out, activity),
              processed_ids |-> st.processed_ids \cup {activity_id},
              calls |-> st.calls \o joined.calls]
        ELSE [out |-> st.out, processed_ids |-> st.processed_ids,
              calls |-> st.calls \o joined.calls]

\* A variant of the loop without the processed_ids test; the
\* one-acquisition-per-object property is checked to tell it apart.
RECURSIVE TechniqueLoopOverAll(_, _, _, _)
TechniqueLoopOverAll(mq, df, i, st) ==
    IF i > Len(df) THEN st
    ELSE LET activity_id == Cell(df, i, "object_id")
         IN  IF Truthy(activity_id)
             THEN TechniqueLoopOverAll(mq, df, i + 1,
                      TechniqueJoined(df, i, st, getEntityById(mq, Str(activity_id))))
             ELSE TechniqueLoopOverAll(mq, df, i + 1, st)

RECURSIVE TechniqueLoop(_, _, _, _)
TechniqueLoop(mq, df, i, st) ==
    IF i > Len(df) THEN st
    ELSE LET activity_id == Cell(df, i, "object_id")
         IN  IF Truthy(activity_id) /\ activity_id \notin st.processed_ids
             THEN TechniqueLoop(mq, df, i + 1,
                      TechniqueJoined(df, i, st, getEntityById(mq, Str(activity_id))))
             ELSE TechniqueLoop(mq, df, i + 1, st)

\* The loop over the handlers hs from position k on.
RECURSIVE TechniqueHandlerLoop(_, _, _, _, _)
TechniqueHandlerLoop(mq, hs, technique, k, st) ==
    IF k > Len(hs) THEN st
    ELSE LET acquisitions_df == PQ_getAcquisitionsByTechnique(hs[k], technique)
             called == [out |-> st.out, processed_ids |-> st.processed_ids,
                        calls |-> Append(st.calls,
                                    Call(hs[k], "getAcquisitionsByTechnique", technique, "none"))]
         IN  TechniqueHandlerLoop(mq, hs, technique, k + 1,
                                  TechniqueLoop(mq, acquisitions_df, 1, called))

TechniqueCollected(st) == [value |-> st.out, calls |-> st.calls]

getAcquisitionsByTechnique(mq, pq, technique) ==
    TechniqueCollected(
        TechniqueHandlerLoop(mq, TechniqueHandlers(pq), technique, 1,
                             [out |-> <<>>, processed_ids |-> {}, calls |-> <<>>]))

(***************************************************************************)
(* AdvancedMashup (impl.py 1482-1729).  Its methods index                  *)
(* self.metadataQuery[0] and the columns of the tables they are given      *)
(* without a guard, so a run also says which exception, if any, left the   *)
(* method.                                                                 *)
(***************************************************************************)
Outcome(value, made) == [value |-> value, calls |-> made, raised |-> "none"]

Raise(error, made) == [value |-> None, calls |-> made, raised |-> error]

\* A str where an entity is expected.
StrValue(s) == [kind |-> STR_str, value |-> s]

\* One call of `method` per handler of hs, in order.
CallsTo(hs, method, a) ==
    MapSeq(Len(hs), [k \in 1..Len(hs) |-> Call(hs[k], method, a, "none")])

\* getActivitiesOnObjectsAuthoredBy, lines 1510-1541: the rows of df whose
\* object_id is in ids, each made an activity whose refersTo is the
\* object_id string itself.
AuthoredActivities(df, ids) ==
    LET keep == SelectSeq(MapSeq(Len(df), [i \in 1..Len(df) |-> i]),
                          LAMBDA i : Str(Cell(df, i, "object_id")) \in ids)
    IN  MapSeq(Len(keep), [n \in 1..Len(keep) |->
            ActivityJoined(df, keep[n],
                [value |-> StrValue(Str(Cell(df, keep[n], "object_id"))),
                 calls |-> <<>>]).value])

\* Lines 1499-1544, objects_df being the table of the first handler.
AuthoredFrom(pq, first, objects_df) ==
    IF objects_df = <<>> \/ ~ColumnExists(objects_df, "id") THEN Outcome(<<>>, first)
    ELSE Outcome(
            Flatten(MapSeq(Len(pq), [k \in 1..Len(pq) |->
                AuthoredActivities(PQ_getAllActivities(pq[k]),
                    {Str(Cell(objects_df, i, "id")) : i \in 1..Len(objects_df)})])),
            first \o CallsTo(pq, "getAllActivities", None))

\* A variant that takes the authored objects from the last metadata
\* handler; the first-handler property is checked to tell it apart.
AuthoredByLastHandler(mq, pq, author_id) ==
    IF mq = <<>> THEN Raise("IndexError", <<>>)
    ELSE AuthoredFrom(pq,
            <<Call(mq[Len(mq)], "getCulturalHeritageObjectsAuthoredBy", author_id, "none")>>,
            MQ_getCulturalHeritageObjectsAuthoredBy(mq[Len(mq)], author_id))

getActivitiesOnObjectsAuthoredBy(mq, pq, author_id) ==
    IF mq = <<>> THEN Raise("IndexError", <<>>)
    ELSE AuthoredFrom(pq,
            <<Call(mq[1], "getCulturalHeritageObjectsAuthoredBy", author_id, "none")>>,
            MQ_getCulturalHeritageObjectsAuthoredBy(mq[1], author_id))

\* object_classes.get(object_type, CulturalHeritageObject)
ObjectClass(object_type) ==
    IF object_type \in ObjectClasses THEN object_type ELSE STR_CulturalHeritageObject

\* The object the advanced methods build from row i: its class by the type
\* tag, the author kept as the two flat fields, no hasAuthor.
ObjectOfTypedRow(df, i, id, author_id) ==
    CulturalHeritageObject(ObjectClass(Cell(df, i, "type_name")), id,
        Cell(df, i, "title"), Cell(df, i, "date"), Cell(df, i, "owner"),
        Cell(df, i, "place"), <<>>, author_id, Cell(df, i, "author_name"))

\* all_object_ids: the object_ids of the tables that are not empty, as str.
HandledIds(tables) ==
    UNION {{Str(Cell(tables[k], i, "object_id")) : i \in 1..Len(tables[k])} :
              k \in 1..Len(tables)}

\* Lines 1572-1591 and 1616-1635: one object per row of the listing whose
\* id is in ids.
HandledObjects(objects_df, ids) ==
    LET keep == SelectSeq(MapSeq(Len(objects_df), [i \in 1..Len(objects_df) |-> i]),
                          LAMBDA i : Str(Cell(objects_df, i, "id")) \in ids)
    IN  MapSeq(Len(keep), [n \in 1..Len(keep) |->
            ObjectOfTypedRow(objects_df, keep[n], Cell(objects_df, keep[n], "id"),
                             Cell(objects_df, keep[n], "author_id"))])

\* The listing of the first metadata handler, once the process handlers
\* have been asked.  Only getObjectsHandledByResponsiblePerson tests the
\* listing for emptiness (guarded); objects_df["id"] raises KeyError on a
\* table without that column, as the empty table is.
HandledListing(made, ids, guarded, objects_df) ==
    IF objects_df = <<>> /\ guarded THEN Outcome(<<>>, made)
    ELSE IF ~ColumnExists(objects_df, "id") THEN Raise("KeyError", made)
    ELSE Outcome(HandledObjects(objects_df, ids), made)

\* A variant that reads the listing of the last metadata handler; the
\* first-listing property is checked to tell it apart.
HandledFromLastHandler(mq, made, ids, guarded) ==
    IF mq = <<>> THEN Raise("IndexError", made)
    ELSE HandledListing(
            Append(made, Call(mq[Len(mq)], "getAllCulturalHeritageObjects", None, "none")),
            ids, guarded, MQ_getAllCulturalHeritageObjects(mq[Len(mq)]))

HandledFrom(mq, made, ids, guarded) ==
    IF mq = <<>> THEN Raise("IndexError", made)
    ELSE HandledListing(
            Append(made, Call(mq[1], "getAllCulturalHeritageObjects", None, "none")),
            ids, guarded, MQ_getAllCulturalHeritageObjects(mq[1]))

getObjectsHandledByResponsiblePerson(mq, pq, responsible_person) ==
    HandledFrom(mq, CallsTo(pq, "getActivitiesByResponsiblePerson", responsible_person),
                HandledIds(getActivitiesByResponsiblePersonTables(pq, responsible_person)),
                TRUE)

getObjectsHandledByResponsibleInstitution(mq, pq, institute_name) ==
    HandledFrom(mq, CallsTo(pq, "getActivitiesByResponsibleInstitution", institute_name),
                HandledIds(getActivitiesByResponsibleInstitutionTables(pq, institute_name)),
                FALSE)

(***************************************************************************)
(* getAuthorsOfObjectsAcquiredInTimeFrame (impl.py 1637-1682).             *)
(***************************************************************************)
\* What is not a date.
NaT == -1

\* The day a text of the shape YYYY-MM-DD names, as the number YYYYMMDD,
\* which orders days as the calendar does; NaT for None, NaN, the empty
\* string and any text of another shape.
ToDatetime(s) ==
    IF s = None \/ s = NaN \/ Len(s) # 10 THEN NaT
    ELSE IF s[5] # "-" \/ s[8] # "-" THEN NaT
    ELSE IF \E i \in {1, 2, 3, 4, 6, 7, 9, 10} : ~IsDigit(s[i]) THEN NaT
    ELSE DigitValue(s[1]) * 10000000 + DigitValue(s[2]) * 1000000
         + DigitValue(s[3]) * 100000 + DigitValue(s[4]) * 10000
         + DigitValue(s[6]) * 1000 + DigitValue(s[7]) * 100
         + DigitValue(s[9]) * 10 + DigitValue(s[10])

\* A variant that takes the rows of every type; the selection property of
\* the time frame is checked to tell it apart.
StartedIdsOfAnyType(df, start_dt) ==
    {Str(df[i].object_id) :
        i \in {j \in 1..Len(df) :
                  /\ ToDatetime(df[j].start_date) # NaT
                  /\ ToDatetime(df[j].start_date) >= start_dt}}

\* started_acquisitions["object_id"]: type == "Acquisition" and
\* start_dt >= start_dt, which no NaT satisfies.
StartedIds(df, start_dt) ==
    {Str(df[i].object_id) :
        i \in {j \in 1..Len(df) :
                  /\ df[j].type = STR_Acquisition
                  /\ ToDatetime(df[j].start_date) # NaT
                  /\ ToDatetime(df[j].start_date) >= start_dt}}

EndedIds(df, end_dt) ==
    {Str(df[i].object_id) :
        i \in {j \in 1..Len(df) :
                  /\ df[j].type = STR_Acquisition
                  /\ ToDatetime(df[j].end_date) # NaT
                  /\ ToDatetime(df[j].end_date) <= end_dt}}

\* common_ids, tables being the getAllActivities tables of the handlers.
CommonIds(tables, start_dt, end_dt) ==
    (UNION {StartedIds(tables[k], start_dt) : k \in 1..Len(tables)})
    \cap (UNION {EndedIds(tables[k], end_dt) : k \in 1..Len(tables)})

\* Lines 1668-1680: one Person per selected row of the listing.  The
\* persons are collected in a set, and Person defines neither __eq__ nor
\* __hash__, so the set keeps every one of them.
AuthorsOfRows(objects_df, ids) ==
    LET keep == SelectSeq(MapSeq(Len(objects_df), [i \in 1..Len(objects_df) |-> i]),
                          LAMBDA i : Str(Cell(objects_df, i, "id")) \in ids)
    IN  MapSeq(Len(keep), [n \in 1..Len(keep) |->
            Person(Str(Cell(objects_df, keep[n], "author_id")),
                   IF NotNa(Cell(objects_df, keep[n], "author_name"))
                   THEN Str(Cell(objects_df, keep[n], "author_name")) ELSE <<>>)])

TimeFrameListing(made, ids, objects_df) ==
    IF ~ColumnExists(objects_df, "id") THEN Raise("KeyError", made)
    ELSE Outcome(AuthorsOfRows(objects_df, ids), made)

TimeFrameFrom(mq, made, ids) ==
    IF mq = <<>> THEN Raise("IndexError", made)
    ELSE TimeFrameListing(
            Append(made, Call(mq[1], "getAllCulturalHeritageObjects", None, "none")),
            ids, MQ_getAllCulturalHeritageObjects(mq[1]))

\* datetime.fromisoformat raises ValueError on a text that is no date; the
\* listed persons come back in the order the set yields them.
getAuthorsOfObjectsAcquiredInTimeFrame(mq, pq, start_date, end_date) ==
    IF ToDatetime(start_date) = NaT \/ ToDatetime(end_date) = NaT
    THEN Raise("ValueError", <<>>)
    ELSE TimeFrameFrom(mq, CallsTo(pq, "getAllActivities", None),
            CommonIds(getAllActivitiesTables(pq), ToDatetime(start_date),
                      ToDatetime(end_date)))

\* The lists a set of the elements of s may be turned into.
Orderings(s) ==
    {MapSeq(Len(s), [n \in 1..Len(s) |-> s[p[n]]]) :
        p \in {q \in [1..Len(s) -> 1..Len(s)] : \A i, j \in 1..Len(s) : q[i] = q[j] => i = j}}

(***************************************************************************)
(* getCulturalHeritageObjectsByAuthorAndOwner (impl.py 1684-1729).         *)
(***************************************************************************)
\* fillna("").astype(str)
FillNa(v) == IF v = NaN THEN <<>> ELSE Str(v)

\* Lines 1702-1729, owner_df having an id column.
AuthorAndOwnerRows(owner_df, personId, made) ==
    LET keep == SelectSeq(MapSeq(Len(owner_df), [i \in 1..Len(owner_df) |-> i]),
                    LAMBDA i : \/ FillNa(Cell(owner_df, i, "author_id")) = personId
                               \/ FillNa(Cell(owner_df, i, "id")) = personId)
    IN  IF ~ColumnExists(owner_df, "author_id") THEN Raise("KeyError", made)
        ELSE Outcome(MapSeq(Len(keep), [n \in 1..Len(keep) |->
                        ObjectOfTypedRow(owner_df, keep[n],
                            FillNa(Cell(owner_df, keep[n], "id")),
                            FillNa(Cell(owner_df, keep[n], "author_id")))]),
                     made)

AuthorAndOwnerFrom(owner_df, personId, made) ==
    IF owner_df = <<>> \/ ~ColumnExists(owner_df, "id") THEN Outcome(<<>>, made)
    ELSE AuthorAndOwnerRows(owner_df, personId, made)

getCulturalHeritageObjectsByAuthorAndOwner(mq, personId, owner) ==
    IF mq = <<>> THEN Raise("IndexError", <<>>)
    ELSE AuthorAndOwnerFrom(MQ_getAllCulturalHeritageObjectByOwner(mq[1], owner), personId,
            <<Call(mq[1], "getAllCulturalHeritageObjectByOwner", owner, "none")>>)

\* Arguments the queries are called with.
IdArgs == {id_obj1, id_obj2, id_obj3, id_obj9, id_VIAF1, id_ulan2, id_ISNI4, id_VIAF7, STR_noID}
InstitutionArgs == {u_un, i_Lab}
PersonArgs == {u_an, r_Bob}
ToolArgs == {l_scan, l_Lens, <<>>}
DateArgs == {dt_20200101, dt_20210510}
TechniqueArgs == {q_ray, q_Photo}
AuthorArgs == {id_VIAF1, id_obj2}
TimeFrameArgs ==
    {<<dt_20210501, dt_20210501>>, <<dt_20210510, dt_20210510>>, <<dt_20190101, dt_20210510>>}
AuthorAndOwnerArgs ==
    {<<id_VIAF1, o_louvre>>, <<id_obj3, o_MUSEO>>, <<id_obj2, <<>>>>, <<<<>>, o_MUSEO>>}

\* A mashup built as BasicMashup(): it makes its own two lists, which
\* nothing else holds.  callerList is a list the caller holds and otherList
\* the metadataQuery of a second mashup.
Apart(callerList, otherList) ==
    [given |-> FALSE, otherGiven |-> FALSE, callerList |-> callerList,
     otherList |-> otherList]

(***************************************************************************)
(* The mashup's operations.                                                *)
(***************************************************************************)
Init ==
    /\ metadataQuery = <<>>
    /\ processQuery = <<>>
    /\ world \in HealthyWorlds
    /\ op = "init"
    /\ arg = None
    /\ result = None
    /\ calls = <<>>
    /\ raised = "none"
    /\ outside = Apart(<<>>, <<>>)

\* What a call leaves behind: run.value is returned, run.calls were made.
Returns(name, a, run) ==
    /\ op' = name
    /\ arg' = a
    /\ result' = run.value
    /\ calls' = run.calls
    /\ raised' = "none"

\* What a call that may raise leaves behind: run.raised names the exception
\* that left it, and nothing is returned then.
Completes(name, a, run) ==
    /\ op' = name
    /\ arg' = a
    /\ result' = run.value
    /\ calls' = run.calls
    /\ raised' = run.raised

\* A registration method asks no handler and returns True.
Done == [value |-> TRUE, calls |-> <<>>]

\* A variant that puts the handler at the front; the registration property
\* is checked to tell it apart.
PrependMetadataHandler(h) ==
    /\ Len(metadataQuery) < MaxHandlers
    /\ metadataQuery' = <<h>> \o metadataQuery
    /\ Returns("addMetadataHandler", None, Done)
    /\ UNCHANGED <<processQuery, world, outside>>

\* Registration (impl.py 934-948).
addMetadataHandler(h) ==
    /\ Len(metadataQuery) < MaxHandlers
    /\ metadataQuery' = Append(metadataQuery, h)
    /\ Returns("addMetadataHandler", None, Done)
    /\ UNCHANGED <<processQuery, world, outside>>

addProcessHandler(h) ==
    /\ Len(processQuery) < MaxHandlers
    /\ processQuery' = Append(processQuery, h)
    /\ Returns("addProcessHandler", None, Done)
    /\ UNCHANGED <<metadataQuery, world, outside>>

cleanMetadataHandlers ==
    /\ metadataQuery' = <<>>
    /\ Returns("cleanMetadataHandlers", None, Done)
    /\ UNCHANGED <<processQuery, world, outside>>

cleanProcessHandlers ==
    /\ processQuery' = <<>>
    /\ Returns("cleanProcessHandlers", None, Done)
    /\ UNCHANGED <<metadataQuery, world, outside>>

\* The queries leave the handler collections and the backends as they are.
CallGetEntityById(id_string) ==
    /\ Returns("getEntityById", id_string, getEntityById(metadataQuery, id_string))
    /\ UNCHANGED <<metadataQuery, processQuery, world, outside>>

CallGetAllPeople ==
    /\ Returns("getAllPeople", None, getAllPeople(metadataQuery))
    /\ UNCHANGED <<metadataQuery, processQuery, world, outside>>

CallGetAllCulturalHeritageObjects ==
    /\ Returns("getAllCulturalHeritageObjects", None,
               getAllCulturalHeritageObjects(metadataQuery))
    /\ UNCHANGED <<metadataQuery, processQuery, world, outside>>

CallGetCulturalHeritageObjectsAuthoredBy(id) ==
    /\ Returns("getCulturalHeritageObjectsAuthoredBy", id,
               getCulturalHeritageObjectsAuthoredBy(metadataQuery, id))
    /\ UNCHANGED <<metadataQuery, processQuery, world, outside>>

CallGetAllActivities ==
    /\ Returns("getAllActivities", None, getAllActivities(metadataQuery, processQuery))
    /\ UNCHANGED <<metadataQuery, processQuery, world, outside>>

CallGetActivitiesByResponsibleInstitution(s) ==
    /\ Returns("getActivitiesByResponsibleInstitution", s,
               getActivitiesByResponsibleInstitution(metadataQuery, processQuery, s))
    /\ UNCHANGED <<metadataQuery, processQuery, world, outside>>

CallGetActivitiesByResponsiblePerson(s) ==
    /\ Returns("getActivitiesByResponsiblePerson", s,
               getActivitiesByResponsiblePerson(metadataQuery, processQuery, s))
    /\ UNCHANGED <<metadataQuery, processQuery, world, outside>>

CallGetActivitiesUsingTool(s) ==
    /\ Returns("getActivitiesUsingTool", s,
               getActivitiesUsingTool(metadataQuery, processQuery, s))
    /\ UNCHANGED <<metadataQuery, processQuery, world, outside>>

CallGetActivitiesStartedAfter(d) ==
    /\ Returns("getActivitiesStartedAfter", d,
               getActivitiesStartedAfter(metadataQuery, processQuery, d))
    /\ UNCHANGED <<metadataQuery, processQuery, world, outside>>

CallGetActivitiesEndedBefore(d) ==
    /\ Returns("getActivitiesEndedBefore", d,
               getActivitiesEndedBefore(metadataQuery, processQuery, d))
    /\ UNCHANGED <<metadataQuery, processQuery, world, outside>>

CallGetAcquisitionsByTechnique(s) ==
    /\ Returns("getAcquisitionsByTechnique", s,
               getAcquisitionsByTechnique(metadataQuery, processQuery, s))
    /\ UNCHANGED <<metadataQuery, processQuery, world, outside>>

\* AdvancedMashup.
CallGetActivitiesOnObjectsAuthoredBy(id) ==
    /\ Completes("getActivitiesOnObjectsAuthoredBy", id,
                 getActivitiesOnObjectsAuthoredBy(metadataQuery, processQuery, id))
    /\ UNCHANGED <<metadataQuery, processQuery, world, outside>>

CallGetObjectsHandledByResponsiblePerson(s) ==
    /\ Completes("getObjectsHandledByResponsiblePerson", s,
                 getObjectsHandledByResponsiblePerson(metadataQuery, processQuery, s))
    /\ UNCHANGED <<metadataQuery, processQuery, world, outside>>

CallGetObjectsHandledByResponsibleInstitution(s) ==
    /\ Completes("getObjectsHandledByResponsibleInstitution", s,
                 getObjectsHandledByResponsibleInstitution(metadataQuery, processQuery, s))
    /\ UNCHANGED <<metadataQuery, processQuery, world, outside>>

\* A variant that lists only some of the persons collected, so that two
\* calls may differ in what they list and not only in its order.
ListedInPart(name, a, run) ==
    IF run.raised # "none" THEN Completes(name, a, run)
    ELSE \E n \in 0..Len(run.value) :
            Completes(name, a, Outcome(SubSeq(run.value, 1, n), run.calls))

\* list(all_authors): any order of the persons collected.
ListedInSomeOrder(name, a, run) ==
    IF run.raised # "none" THEN Completes(name, a, run)
    ELSE \E listed \in Orderings(run.value) :
            Completes(name, a, Outcome(listed, run.calls))

CallGetAuthorsOfObjectsAcquiredInTimeFrame(frame) ==
    /\ ListedInSomeOrder("getAuthorsOfObjectsAcquiredInTimeFrame", frame,
            getAuthorsOfObjectsAcquiredInTimeFrame(metadataQuery, processQuery,
                                                   frame[1], frame[2]))
    /\ UNCHANGED <<metadataQuery, processQuery, world, outside>>

CallGetCulturalHeritageObjectsByAuthorAndOwner(a) ==
    /\ Completes("getCulturalHeritageObjectsByAuthorAndOwner", a,
                 getCulturalHeritageObjectsByAuthorAndOwner(metadataQuery, a[1], a[2]))
    /\ UNCHANGED <<metadataQuery, processQuery, world, outside>>

Next ==
    \/ \E h \in MetadataHandlers : addMetadataHandler(h)
    \/ \E h \in ProcessHandlers : addProcessHandler(h)
    \/ cleanMetadataHandlers
    \/ cleanProcessHandlers
    \/ \E id \in IdArgs : CallGetEntityById(id)
    \/ CallGetAllPeople
    \/ CallGetAllCulturalHeritageObjects
    \/ \E id \in AuthorArgs : CallGetCulturalHeritageObjectsAuthoredBy(id)
    \/ CallGetAllActivities
    \/ \E s \in InstitutionArgs : CallGetActivitiesByResponsibleInstitution(s)
    \/ \E s \in PersonArgs : CallGetActivitiesByResponsiblePerson(s)
    \/ \E s \in ToolArgs : CallGetActivitiesUsingTool(s)
    \/ \E d \in DateArgs : CallGetActivitiesStartedAfter(d)
    \/ \E d \in DateArgs : CallGetActivitiesEndedBefore(d)
    \/ \E s \in TechniqueArgs : CallGetAcquisitionsByTechnique(s)
    \/ \E id \in AuthorArgs : CallGetActivitiesOnObjectsAuthoredBy(id)
    \/ \E s \in PersonArgs : CallGetObjectsHandledByResponsiblePerson(s)
    \/ \E s \in InstitutionArgs : CallGetObjectsHandledByResponsibleInstitution(s)
    \/ \E frame \in TimeFrameArgs : CallGetAuthorsOfObjectsAcquiredInTimeFrame(frame)
    \/ \E a \in AuthorAndOwnerArgs : CallGetCulturalHeritageObjectsByAuthorAndOwner(a)

Spec == Init /\ [][Next]_vars

(***************************************************************************)
(* The handlers called directly, over backends that may fail.  A caller    *)
(* holds the handlers of one world, asks one of them one query and gets    *)
(* the table it returns or the exception that leaves it.                   *)
(***************************************************************************)
FaultInit ==
    /\ metadataQuery = <<>>
    /\ processQuery = <<>>
    /\ world \in HealthyWorlds \cup FaultyWorlds \cup {DatedWorld}
    /\ op = "init"
    /\ arg = None
    /\ result = None
    /\ calls = <<>>
    /\ raised = "none"
    /\ outside = Apart(<<>>, <<>>)

\* What the call `name` on handler h leaves behind.
Answers(h, name, a, outcome) ==
    /\ op' = name
    /\ arg' = <<h, a>>
    /\ result' = outcome.table
    /\ raised' = outcome.raised
    /\ calls' = <<>>

HandlerGetById(h, id) ==
    /\ Answers(h, "getById", id, getByIdOutcome(h, id))
    /\ UNCHANGED <<metadataQuery, processQuery, world, outside>>

HandlerGetAllPeople(h) ==
    /\ Answers(h, "getAllPeople", None, ExecuteQueryOutcome(h, MQ_getAllPeople(h)))
    /\ UNCHANGED <<metadataQuery, processQuery, world, outside>>

HandlerGetAllCulturalHeritageObjects(h) ==
    /\ Answers(h, "getAllCulturalHeritageObjects", None,
               ExecuteQueryOutcome(h, MQ_getAllCulturalHeritageObjects(h)))
    /\ UNCHANGED <<metadataQuery, processQuery, world, outside>>

HandlerGetCulturalHeritageObjectsAuthoredBy(h, id) ==
    /\ Answers(h, "getCulturalHeritageObjectsAuthoredBy", id,
               ExecuteQueryOutcome(h, MQ_getCulturalHeritageObjectsAuthoredBy(h, id)))
    /\ UNCHANGED <<metadataQuery, processQuery, world, outside>>

HandlerGetAllCulturalHeritageObjectByOwner(h, owner) ==
    /\ Answers(h, "getAllCulturalHeritageObjectByOwner", owner,
               ExecuteQueryOutcome(h, MQ_getAllCulturalHeritageObjectByOwner(h, owner)))
    /\ UNCHANGED <<metadataQuery, processQuery, world, outside>>

HandlerGetAllCulturalHeritageObjectCreatedAfter(h, year) ==
    /\ Answers(h, "getAllCulturalHeritageObjectCreatedAfter", year,
               ExecuteQueryOutcome(h, MQ_getAllCulturalHeritageObjectCreatedAfter(h, year)))
    /\ UNCHANGED <<metadataQuery, processQuery, world, outside>>

HandlerGetAllActivities(h) ==
    /\ Answers(h, "getAllActivities", None, ReadSqlOutcome(h, PQ_getAllActivities(h)))
    /\ UNCHANGED <<metadataQuery, processQuery, world, outside>>

HandlerGetActivitiesByResponsibleInstitution(h, s) ==
    /\ Answers(h, "getActivitiesByResponsibleInstitution", s,
               ReadSqlOutcome(h, PQ_getActivitiesByResponsibleInstitution(h, s)))
    /\ UNCHANGED <<metadataQuery, processQuery, world, outside>>

HandlerGetActivitiesByResponsiblePerson(h, s) ==
    /\ Answers(h, "getActivitiesByResponsiblePerson", s,
               ReadSqlOutcome(h, PQ_getActivitiesByResponsiblePerson(h, s)))
    /\ UNCHANGED <<metadataQuery, processQuery, world, outside>>

HandlerGetActivitiesStartedAfter(h, d) ==
    /\ Answers(h, "getActivitiesStartedAfter", d,
               ReadSqlOutcome(h, PQ_getActivitiesStartedAfter(h, d)))
    /\ UNCHANGED <<metadataQuery, processQuery, world, outside>>

HandlerGetActivitiesEndedBefore(h, d) ==
    /\ Answers(h, "getActivitiesEndedBefore", d,
               ReadSqlOutcome(h, PQ_getActivitiesEndedBefore(h, d)))
    /\ UNCHANGED <<metadataQuery, processQuery, world, outside>>

HandlerGetAcquisitionsByTechnique(h, s) ==
    /\ Answers(h, "getAcquisitionsByTechnique", s,
               ReadSqlOutcome(h, PQ_getAcquisitionsByTechnique(h, s)))
    /\ UNCHANGED <<metadataQuery, processQuery, world, outside>>

OwnerArgs == {o_louvre, o_MUSEO}
YearArgs == {1502, 1503, 1505, 1510, 1519, 1520}

FaultNext ==
    \/ \E h \in MetadataHandlers, id \in IdArgs : HandlerGetById(h, id)
    \/ \E h \in MetadataHandlers : HandlerGetAllPeople(h)
    \/ \E h \in MetadataHandlers : HandlerGetAllCulturalHeritageObjects(h)
    \/ \E h \in MetadataHandlers, id \in AuthorArgs :
          HandlerGetCulturalHeritageObjectsAuthoredBy(h, id)
    \/ \E h \in MetadataHandlers, owner \in OwnerArgs :
          HandlerGetAllCulturalHeritageObjectByOwner(h, owner)
    \/ \E h \in MetadataHandlers, year \in YearArgs :
          HandlerGetAllCulturalHeritageObjectCreatedAfter(h, year)
    \/ \E h \in ProcessHandlers : HandlerGetAllActivities(h)
    \/ \E h \in ProcessHandlers, s \in InstitutionArgs :
          HandlerGetActivitiesByResponsibleInstitution(h, s)
    \/ \E h \in ProcessHandlers, s \in PersonArgs :
          HandlerGetActivitiesByResponsiblePerson(h, s)
    \/ \E h \in ProcessHandlers, d \in DateArgs : HandlerGetActivitiesStartedAfter(h, d)
    \/ \E h \in ProcessHandlers, d \in DateArgs : HandlerGetActivitiesEndedBefore(h, d)
    \/ \E h \in ProcessHandlers, s \in TechniqueArgs :
          HandlerGetAcquisitionsByTechnique(h, s)

FaultSpec == FaultInit /\ [][FaultNext]_vars

(***************************************************************************)
(* Who holds the lists.  BasicMashup.__init__ (impl.py 930-932) keeps the  *)
(* list it is given, not a copy of it, so the list object the caller       *)
(* passed is the mashup's metadataQuery, and a second mashup built from    *)
(* the same list shares it.  outside.given says that the mashup was built  *)
(* from the caller's list, outside.otherGiven that a second mashup was;    *)
(* a list held by several parties has one content.                         *)
(***************************************************************************)
OwnerInit ==
    /\ \E given \in BOOLEAN, otherGiven \in BOOLEAN, l \in {<<>>, <<"M1">>} :
          /\ outside = [given |-> given, otherGiven |-> otherGiven, callerList |-> l,
                        otherList |-> IF otherGiven THEN l ELSE <<>>]
          /\ metadataQuery = IF given THEN l ELSE <<>>
    /\ processQuery = <<>>
    /\ world \in HealthyWorlds
    /\ op = "init"
    /\ arg = None
    /\ result = None
    /\ calls = <<>>
    /\ raised = "none"

\* The caller's list object takes the content `new`, and with it every
\* collection that is that object.
CallerListBecomes(new) ==
    /\ outside' = [outside EXCEPT !.callerList = new,
                                  !.otherList = IF outside.otherGiven THEN new ELSE @]
    /\ metadataQuery' = IF outside.given THEN new ELSE metadataQuery

\* The second mashup's own list takes the content `new`.
OtherListBecomes(new) ==
    /\ outside' = [outside EXCEPT !.otherList = new]
    /\ metadataQuery' = metadataQuery

\* The mashup's own list takes the content `new`.
OwnListBecomes(new) ==
    /\ metadataQuery' = new
    /\ outside' = outside

\* The caller appends to the list it holds.
CallerAppends(h) ==
    /\ Len(outside.callerList) < MaxHandlers
    /\ CallerListBecomes(Append(outside.callerList, h))
    /\ Returns("list.append", None, [value |-> None, calls |-> <<>>])
    /\ UNCHANGED <<processQuery, world>>

\* addMetadataHandler and cleanMetadataHandlers on the second mashup.
OtherAdds(h) ==
    /\ Len(outside.otherList) < MaxHandlers
    /\ IF outside.otherGiven THEN CallerListBecomes(Append(outside.otherList, h))
       ELSE OtherListBecomes(Append(outside.otherList, h))
    /\ Returns("other.addMetadataHandler", None, Done)
    /\ UNCHANGED <<processQuery, world>>

OtherCleans ==
    /\ IF outside.otherGiven THEN CallerListBecomes(<<>>) ELSE OtherListBecomes(<<>>)
    /\ Returns("other.cleanMetadataHandlers", None, Done)
    /\ UNCHANGED <<processQuery, world>>

\* addMetadataHandler and cleanMetadataHandlers on the mashup itself.
OwnAdds(h) ==
    /\ Len(metadataQuery) < MaxHandlers
    /\ IF outside.given THEN CallerListBecomes(Append(metadataQuery, h))
       ELSE OwnListBecomes(Append(metadataQuery, h))
    /\ Returns("addMetadataHandler", None, Done)
    /\ UNCHANGED <<processQuery, world>>

OwnCleans ==
    /\ IF outside.given THEN CallerListBecomes(<<>>) ELSE OwnListBecomes(<<>>)
    /\ Returns("cleanMetadataHandlers", None, Done)
    /\ UNCHANGED <<processQuery, world>>

\* A query on the mashup itself.
OwnQuery ==
    /\ Returns("getAllPeople", None, getAllPeople(metadataQuery))
    /\ UNCHANGED <<metadataQuery, processQuery, world, outside>>

OwnerNext ==
    \/ \E h \in MetadataHandlers : CallerAppends(h)
    \/ \E h \in MetadataHandlers : OtherAdds(h)
    \/ OtherCleans
    \/ \E h \in MetadataHandlers : OwnAdds(h)
    \/ OwnCleans
    \/ OwnQuery

OwnerSpec == OwnerInit /\ [][OwnerNext]_vars

(***************************************************************************)
(* Properties.  They are stated over the last call: its name (op), its     *)
(* argument (arg), what it returned (result) and the handler calls it made *)
(* (calls), against the tables the registered handlers return.             *)
(***************************************************************************)
\* The table a process handler returns for a fan-out method.
TableOf(method, h, a) ==
    CASE method = "getAllActivities" -> PQ_getAllActivities(h)
      [] method = "getActivitiesByResponsibleInstitution" ->
            PQ_getActivitiesByResponsibleInstitution(h, a)
      [] method = "getActivitiesByResponsiblePerson" ->
            PQ_getActivitiesByResponsiblePerson(h, a)
      [] method = "getActivitiesStartedAfter" -> PQ_getActivitiesStartedAfter(h, a)
      [] method = "getActivitiesEndedBefore" -> PQ_getActivitiesEndedBefore(h, a)

\* The rows of every registered process handler, handlers in registration
\* order and each handler's rows in table order.
RowsInOrder(method, pq, a) ==
    Flatten(MapSeq(Len(pq), [k \in 1..Len(pq) |-> TableOf(method, pq[k], a)]))

\* Activity a carries the class and the columns of row r.
FromRow(a, r) ==
    /\ a.kind = (IF r.type \in ActivityClasses THEN r.type ELSE STR_Activity)
    /\ a.institute = r.responsible_institute
    /\ a.person = r.responsible_person
    /\ a.tool = (IF r.tool = None THEN <<>> ELSE <<r.tool>>)
    /\ a.start = r.start_date
    /\ a.end = r.end_date
    /\ (a.kind = STR_Acquisition => a.technique = r.technique)

\* Some registered metadata handler returns a non-empty getById table.
ExistsInMetadata(id) ==
    \E k \in 1..Len(metadataQuery) : getById(metadataQuery[k], id) # <<>>

\* C1: every activity returned by getAllActivities whose row object_id
\* exists in the metadata store (some registered metadata handler returns a
\* non-empty getById table for it) has refersTo.id equal to the object_id
\* of its row.
C1_RefersToIdIsObjectId ==
    op = "getAllActivities" =>
        LET rows == RowsInOrder("getAllActivities", processQuery, None)
        IN  /\ Len(result) = Len(rows)
            /\ \A n \in 1..Len(rows) :
                  ExistsInMetadata(rows[n].object_id) =>
                      /\ result[n].refersTo # NoEntity
                      /\ result[n].refersTo.id = rows[n].object_id

HasDuplicateId(es) == \E i, j \in 1..Len(es) : i # j /\ es[i].id = es[j].id

\* C2: the list returned by getAllPeople holds no two Persons with the same
\* id, and the list returned by getAllCulturalHeritageObjects no two objects
\* with the same id, whatever handlers are registered and however their
\* tables overlap.
C2_NoDuplicateIds ==
    op \in {"getAllPeople", "getAllCulturalHeritageObjects"} => ~HasDuplicateId(result)

\* Two different registered handlers list the same author identifier, and
\* getAllPeople has returned.
C2_OverlappingPeopleListed ==
    /\ op = "getAllPeople"
    /\ Len(metadataQuery) = 2
    /\ metadataQuery[1] # metadataQuery[2]
    /\ \E r1 \in {MQ_getAllPeople(metadataQuery[1])[i] :
                     i \in 1..Len(MQ_getAllPeople(metadataQuery[1]))} :
          \E i \in 1..Len(MQ_getAllPeople(metadataQuery[2])) :
              MQ_getAllPeople(metadataQuery[2])[i].authorId = r1.authorId
    /\ Len(result) >= 2

\* Row r of a getAllPeople table gives the person e.
PersonOfRow(e, r) == r.authorId = e.id /\ r.authorName = e.name

\* Row r of a getAllCulturalHeritageObjects table gives the object e: same
\* identifier, a recognized type tag, and e's title, type, date, owner,
\* place and author are the row's.
ObjectOfListingRow(e, r) ==
    /\ r.id = e.id
    /\ r.type_name \in ObjectClasses
    /\ e.kind = r.type_name
    /\ e.title = r.title
    /\ e.date = r.date
    /\ e.owner = r.owner
    /\ e.place = r.place
    /\ e.hasAuthor = (IF r.author_id # Unbound /\ r.author_name # Unbound
                      THEN <<Person(r.author_id, r.author_name)>> ELSE <<>>)

\* Handler h produces the object identifier id: its listing has a row with
\* that identifier and a recognized type tag.
ProducesObject(h, id) ==
    LET df == MQ_getAllCulturalHeritageObjects(h)
    IN  \E i \in 1..Len(df) : df[i].id = id /\ df[i].type_name \in ObjectClasses

ProducesPerson(h, id) ==
    LET df == MQ_getAllPeople(h)
    IN  \E i \in 1..Len(df) : df[i].authorId = id

\* C3: every entry of getAllPeople / getAllCulturalHeritageObjects carries
\* the data (name; or title, type, date, owner, place, author) of a row of
\* the earliest-registered handler that produced its identifier; a handler
\* produces an object identifier when it lists it with a recognized type.
C3_EarliestHandlerWins ==
    /\ op = "getAllPeople" =>
          \A n \in 1..Len(result) :
              \E k \in 1..Len(metadataQuery) :
                  /\ \A j \in 1..(k - 1) : ~ProducesPerson(metadataQuery[j], result[n].id)
                  /\ LET df == MQ_getAllPeople(metadataQuery[k])
                     IN  \E i \in 1..Len(df) : PersonOfRow(result[n], df[i])
    /\ op = "getAllCulturalHeritageObjects" =>
          \A n \in 1..Len(result) :
              \E k \in 1..Len(metadataQuery) :
                  /\ \A j \in 1..(k - 1) : ~ProducesObject(metadataQuery[j], result[n].id)
                  /\ LET df == MQ_getAllCulturalHeritageObjects(metadataQuery[k])
                     IN  \E i \in 1..Len(df) : ObjectOfListingRow(result[n], df[i])

\* Two different registered handlers produce the same object identifier
\* with different titles, and getAllCulturalHeritageObjects has returned it.
C3_SameObjectFromTwoHandlers ==
    /\ op = "getAllCulturalHeritageObjects"
    /\ Len(metadataQuery) = 2
    /\ \E n \in 1..Len(result) :
          /\ ProducesObject(metadataQuery[1], result[n].id)
          /\ ProducesObject(metadataQuery[2], result[n].id)
          /\ LET df == MQ_getAllCulturalHeritageObjects(metadataQuery[2])
             IN  \E i \in 1..Len(df) :
                    df[i].id = result[n].id /\ df[i].title # result[n].title

\* C4: getEntityById calls getById on the registered metadata handlers in
\* registration order and stops at the first whose table is not empty: the
\* calls are to the first handlers of the collection, in order, every
\* handler asked before the last returned an empty table, an unasked
\* handler remains only when the last asked returned a non-empty one, and
\* the result is built from the last asked handler's table.  No entity is
\* returned exactly when every handler's table is empty, which includes an
\* empty collection.
C4_FirstNonEmptyHandler ==
    op = "getEntityById" =>
        LET mq == metadataQuery
            asked == Len(calls)
        IN  /\ asked <= Len(mq)
            /\ \A i \in 1..asked :
                  /\ calls[i].handler = mq[i]
                  /\ calls[i].method = "getById"
                  /\ calls[i].arg = arg
            /\ \A i \in 1..(asked - 1) : getById(mq[i], arg) = <<>>
            /\ asked < Len(mq) => getById(mq[asked], arg) # <<>>
            /\ (result = NoEntity) = (\A i \in 1..Len(mq) : getById(mq[i], arg) = <<>>)
            /\ result # NoEntity => result = EntityFromRow(getById(mq[asked], arg), arg)

\* Two registered handlers return different non-empty tables for the id,
\* and getEntityById asked the first alone.
C4_SecondHandlerNotAsked ==
    /\ op = "getEntityById"
    /\ Len(metadataQuery) = 2
    /\ getById(metadataQuery[1], arg) # <<>>
    /\ getById(metadataQuery[2], arg) # <<>>
    /\ getById(metadataQuery[1], arg) # getById(metadataQuery[2], arg)
    /\ Len(calls) = 1
    /\ result # NoEntity

\* The identifier has a ":" and the text before its first ":" is VIAF or
\* ULAN, letters compared without regard to case.
HasViafOrUlanScheme(id) ==
    \E k \in 1..Len(id) :
        /\ id[k] = ":"
        /\ \A j \in 1..(k - 1) : id[j] # ":"
        /\ \E scheme \in {STR_VIAF, STR_ULAN} :
              /\ Len(scheme) = k - 1
              /\ \A j \in 1..(k - 1) : id[j] \in {scheme[j], LowerChar(scheme[j])}

\* C5: when some handler returns a non-empty table for the id, getEntityById
\* returns a Person exactly when the id has a VIAF or ULAN scheme prefix
\* before ":", and a CulturalHeritageObject for every other id.
C5_KindByScheme ==
    (op = "getEntityById" /\ ExistsInMetadata(arg)) =>
        /\ result # NoEntity
        /\ (result.kind = STR_Person) = HasViafOrUlanScheme(arg)
        /\ ~HasViafOrUlanScheme(arg) => result.kind = STR_CulturalHeritageObject

\* A lower-case ULAN identifier was found and a Person returned.
C5_PersonForLowerCaseScheme ==
    /\ op = "getEntityById"
    /\ arg = id_ulan2
    /\ ExistsInMetadata(arg)
    /\ result.kind = STR_Person

\* C6: QueryHandler.getById issues the person-shaped query exactly when the
\* identifier contains ":", and the object-shaped query otherwise.
C6_QueryShapeByColon ==
    \A i \in 1..Len(calls) :
        calls[i].method = "getById" =>
            LET hasColon == \E k \in 1..Len(calls[i].arg) : calls[i].arg[k] = ":"
            IN  /\ (calls[i].query = "person") = hasColon
                /\ (calls[i].query = "object") = ~hasColon

\* One getAllActivities call made getById issue both shapes of query.
C6_BothShapesIssued ==
    /\ \E i \in 1..Len(calls) : calls[i].method = "getById" /\ calls[i].query = "object"
    /\ \E i \in 1..Len(calls) :
          /\ calls[i].method = "getById"
          /\ calls[i].query = "person"
    /\ op = "getAllActivities"

\* The identifier of an author in some backend.
IsPersonIdentifier(id) ==
    \E h \in MetadataHandlers :
        \E i \in 1..Len(metaStore[h].nodes) :
            /\ metaStore[h].nodes[i].type = SCHEMA_NS \o STR_Author
            /\ metaStore[h].nodes[i].identifier = id

\* A person identifier without ":" is looked up as an object; an identifier
\* with ":" that is not a VIAF or ULAN one is looked up with the person
\* query.
WronglyClassified(id) ==
    \/ IsPersonIdentifier(id) /\ ~(\E k \in 1..Len(id) : id[k] = ":")
    \/ (\E k \in 1..Len(id) : id[k] = ":") /\ ~HasViafOrUlanScheme(id)

\* C7: a lookup of a wrongly classified identifier yields an empty result:
\* every registered handler's getById table is empty and getEntityById
\* returns no entity (never one of the wrong kind built from the other
\* kind's record).
C7_WronglyClassifiedIsEmpty ==
    (op = "getEntityById" /\ WronglyClassified(arg)) =>
        /\ \A k \in 1..Len(metadataQuery) : getById(metadataQuery[k], arg) = <<>>
        /\ result = NoEntity

FanOutMethods ==
    {"getAllActivities", "getActivitiesByResponsibleInstitution",
     "getActivitiesByResponsiblePerson", "getActivitiesStartedAfter",
     "getActivitiesEndedBefore"}

\* C8: getAllActivities and the institution, person, started-after and
\* ended-before filters call every registered process handler exactly once,
\* in registration order, and return one activity per row of every handler,
\* the activities of an earlier-registered handler before those of a later
\* one.
C8_FanOutInRegistrationOrder ==
    op \in FanOutMethods =>
        LET asked == SelectSeq(calls, LAMBDA c : c.method = op)
            rows == RowsInOrder(op, processQuery, arg)
        IN  /\ Len(asked) = Len(processQuery)
            /\ \A k \in 1..Len(asked) :
                  asked[k].handler = processQuery[k] /\ asked[k].arg = arg
            /\ \A i \in 1..Len(calls) : calls[i].method \in {op, "getById"}
            /\ Len(result) = Len(rows)
            /\ \A n \in 1..Len(rows) : FromRow(result[n], rows[n])

\* Two different registered handlers both return rows to a date filter.
C8_TwoHandlersBothWithRows ==
    /\ op = "getActivitiesStartedAfter"
    /\ Len(processQuery) = 2
    /\ processQuery[1] # processQuery[2]
    /\ PQ_getActivitiesStartedAfter(processQuery[1], arg) # <<>>
    /\ PQ_getActivitiesStartedAfter(processQuery[2], arg) # <<>>
    /\ PQ_getActivitiesStartedAfter(processQuery[1], arg)
          # PQ_getActivitiesStartedAfter(processQuery[2], arg)
    /\ Len(result) >= 2

\* The rows of every registered handler's getAcquisitionsByTechnique table,
\* handlers in registration order.
TechniqueRowsInOrder(pq, technique) ==
    Flatten(MapSeq(Len(pq), [k \in 1..Len(pq) |->
        PQ_getAcquisitionsByTechnique(pq[k], technique)]))

\* The rows of a table that are the first with a non-empty object_id.
FirstPerObject(rows) ==
    SelectSeq(MapSeq(Len(rows), [n \in 1..Len(rows) |->
                  [row |-> rows[n],
                   first |-> /\ rows[n].object_id \notin {None, <<>>}
                             /\ \A m \in 1..(n - 1) : rows[m].object_id # rows[n].object_id]]),
              LAMBDA x : x.first)

C10_ToolFilterFirstHandlerOnly ==
    op = "getActivitiesUsingTool" =>
        IF processQuery = <<>> THEN result = <<>> /\ calls = <<>>
        ELSE LET rows == SelectSeq(PQ_getAllActivities(processQuery[1]),
                             LAMBDA r : r.tool # None /\ Contains(Upper(r.tool), Upper(arg)))
             IN  /\ \A i \in 1..Len(calls) :
                       IF i = 1
                       THEN calls[i] = Call(processQuery[1], "getAllActivities", None, "none")
                       ELSE calls[i].method = "getById"
                 /\ Len(calls) >= 1
                 /\ Len(result) = Len(rows)
                 /\ \A n \in 1..Len(rows) : FromRow(result[n], rows[n])

\* The first handler has a row whose tool matches the text only when case
\* is ignored, and a different second handler has a matching row too.
C10_SecondHandlerAlsoMatches ==
    /\ op = "getActivitiesUsingTool"
    /\ Len(processQuery) = 2
    /\ processQuery[1] # processQuery[2]
    /\ LET df1 == PQ_getAllActivities(processQuery[1])
           df2 == PQ_getAllActivities(processQuery[2])
       IN  /\ \E i \in 1..Len(df1) :
                 /\ df1[i].tool # None
                 /\ ~Contains(df1[i].tool, arg)
                 /\ Contains(Lower(df1[i].tool), Lower(arg))
           /\ \E i \in 1..Len(df2) :
                 df2[i].tool # None /\ Contains(Lower(df2[i].tool), Lower(arg))
    /\ result # <<>>

(***************************************************************************)
(* Properties of the advanced methods and of the handlers under failure.   *)
(***************************************************************************)
AdvancedMethods ==
    {"getActivitiesOnObjectsAuthoredBy", "getObjectsHandledByResponsiblePerson",
     "getObjectsHandledByResponsibleInstitution",
     "getAuthorsOfObjectsAcquiredInTimeFrame",
     "getCulturalHeritageObjectsByAuthorAndOwner"}

\* C11: called with no metadata handler registered, whatever process
\* handlers are registered, each of the five advanced methods returns the
\* empty list and raises nothing.
C11_EmptyListWithoutMetadataHandlers ==
    (op \in AdvancedMethods /\ metadataQuery = <<>>) =>
        (raised = "none" /\ result = <<>>)

\* C12: when the first metadata handler returns an empty object listing,
\* getObjectsHandledByResponsibleInstitution and
\* getAuthorsOfObjectsAcquiredInTimeFrame complete without raising and
\* return a list.
C12_EmptyListingIsNoData ==
    ( /\ op \in {"getObjectsHandledByResponsibleInstitution",
                 "getAuthorsOfObjectsAcquiredInTimeFrame"}
      /\ metadataQuery # <<>>
      /\ MQ_getAllCulturalHeritageObjects(metadataQuery[1]) = <<>> ) =>
        (raised = "none" /\ result # None)

\* C13: a handler operation asked of a backend that fails returns the empty
\* table and raises nothing, whether the failure is a status other than
\* success, a transport fault, a malformed response or a failing SQL query.
C13_FailingBackendGivesEmptyTable ==
    ( /\ op # "init"
      /\ \/ arg[1] \in MetadataHandlers /\ metaStore[arg[1]].fault # "none"
         \/ arg[1] \in ProcessHandlers /\ procStore[arg[1]].fault # "none" ) =>
        (raised = "none" /\ result = <<>>)

\* The rows the last activity query built its activities from: the rows of
\* every registered handler in registration order for the fan-out methods,
\* the matching rows of the first handler for getActivitiesUsingTool.
ActivityRowsOf(method, pq, a) ==
    IF method = "getActivitiesUsingTool"
    THEN IF pq = <<>> THEN <<>>
         ELSE SelectSeq(PQ_getAllActivities(pq[1]),
                        LAMBDA r : r.tool # None /\ Contains(Lower(r.tool), Lower(a)))
    ELSE RowsInOrder(method, pq, a)

\* No registered metadata handler has an entity for the row's object_id.
Unresolved(r) == ~ExistsInMetadata(Str(r.object_id))

\* C14: in getAllActivities and the institution, person, tool,
\* started-after and ended-before filters every row gives exactly one
\* activity, rows in order; a row whose object_id resolves to no metadata
\* entity gives an activity with refersTo None, and the rows after it are
\* still processed.
C14_UnresolvedRowKeptWithoutRefersTo ==
    op \in FanOutMethods \cup {"getActivitiesUsingTool"} =>
        LET rows == ActivityRowsOf(op, processQuery, arg)
        IN  /\ Len(result) = Len(rows)
            /\ \A n \in 1..Len(rows) :
                  /\ FromRow(result[n], rows[n])
                  /\ Unresolved(rows[n]) => result[n].refersTo = NoEntity

\* With metadata handlers registered, a row that resolves to nothing is
\* followed by a row of a later handler that resolves to an entity.
C14_UnresolvedRowBeforeResolvedRow ==
    /\ op = "getActivitiesByResponsibleInstitution"
    /\ metadataQuery # <<>>
    /\ Len(processQuery) = 2
    /\ LET rows == ActivityRowsOf(op, processQuery, arg)
           first == Len(PQ_getActivitiesByResponsibleInstitution(processQuery[1], arg))
       IN  \E n \in 1..first : \E m \in (first + 1)..Len(rows) :
              /\ Unresolved(rows[n])
              /\ result[n].refersTo = NoEntity
              /\ result[m].refersTo # NoEntity

ActivityMethods ==
    FanOutMethods \cup
    {"getActivitiesUsingTool", "getAcquisitionsByTechnique", "getActivitiesOnObjectsAuthoredBy"}

\* e is an instance of CulturalHeritageObject: of the class itself or of
\* one of its ten subclasses.
IsCulturalHeritageObject(e) ==
    e.kind \in ObjectClasses \cup {STR_CulturalHeritageObject}

\* C15: the refersTo of every activity a mashup method returns is None or a
\* CulturalHeritageObject instance, never a bare identifier string and
\* never a Person.
C15_RefersToIsObjectOrNone ==
    (op \in ActivityMethods /\ raised = "none") =>
        \A n \in 1..Len(result) :
            result[n].refersTo = NoEntity \/ IsCulturalHeritageObject(result[n].refersTo)

\* C15, the Person half alone: no activity of the BasicMashup methods
\* refers to a Person.
C15_RefersToIsNeverPerson ==
    (op \in ActivityMethods /\ op # "getActivitiesOnObjectsAuthoredBy") =>
        \A n \in 1..Len(result) : result[n].refersTo.kind # STR_Person

\* Every stored row of the registered process handlers, handlers in
\* registration order.
StoredRows == RowsInOrder("getAllActivities", processQuery, None)

HasDate(date) == date # None /\ date # <<>>

\* C16: getActivitiesStartedAfter(d) returns one activity for each stored
\* row whose start_date is not empty and is >= d as text, and for no other
\* row; getActivitiesEndedBefore(d) one for each stored row whose end_date
\* is not empty and is <= d; getAllActivities lists every stored row, the
\* rows without a date included.
C16_DateFiltersExact ==
    /\ op = "getActivitiesStartedAfter" =>
          LET rows == SelectSeq(StoredRows,
                          LAMBDA r : HasDate(r.start_date) /\ LexLeq(arg, r.start_date))
          IN  /\ Len(result) = Len(rows)
              /\ \A n \in 1..Len(rows) : FromRow(result[n], rows[n])
    /\ op = "getActivitiesEndedBefore" =>
          LET rows == SelectSeq(StoredRows,
                          LAMBDA r : HasDate(r.end_date) /\ LexLeq(r.end_date, arg))
          IN  /\ Len(result) = Len(rows)
              /\ \A n \in 1..Len(rows) : FromRow(result[n], rows[n])
    /\ op = "getAllActivities" =>
          /\ Len(result) = Len(StoredRows)
          /\ \A n \in 1..Len(StoredRows) : FromRow(result[n], StoredRows[n])

\* A registered handler stores a row with an empty end_date beside rows
\* that qualify, and getActivitiesEndedBefore returned the qualifying ones.
C16_EmptyEndDateLeftOut ==
    /\ op = "getActivitiesEndedBefore"
    /\ \E n \in 1..Len(StoredRows) : StoredRows[n].end_date = <<>>
    /\ result # <<>>
    /\ Len(result) < Len(StoredRows)

\* The ids of the objects the first metadata handler lists for an author.
AuthoredIds(mq, author_id) ==
    LET objects_df == MQ_getCulturalHeritageObjectsAuthoredBy(mq[1], author_id)
    IN  IF ColumnExists(objects_df, "id")
        THEN {Str(Cell(objects_df, i, "id")) : i \in 1..Len(objects_df)}
        ELSE {}

\* The rows the last activity-building method made its activities from.
BuiltFromRows ==
    CASE op = "getAcquisitionsByTechnique" ->
            LET firsts == FirstPerObject(TechniqueRowsInOrder(processQuery, arg))
            IN  MapSeq(Len(firsts), [n \in 1..Len(firsts) |-> firsts[n].row])
      [] op = "getActivitiesOnObjectsAuthoredBy" ->
            SelectSeq(StoredRows,
                      LAMBDA r : Str(r.object_id) \in AuthoredIds(metadataQuery, arg))
      [] OTHER -> ActivityRowsOf(op, processQuery, arg)

\* The row r with another type tag.
Retagged(r, tag) == [r EXCEPT !.type = tag]

\* Tags that name none of the five activity classes; None is what
\* row.get("type") gives when the tag is missing.
UnrecognizedTags == {STR_Book, STR_Activity, <<>>, None}

ObjectMethods ==
    {"getAllCulturalHeritageObjects", "getObjectsHandledByResponsiblePerson",
     "getObjectsHandledByResponsibleInstitution",
     "getCulturalHeritageObjectsByAuthorAndOwner"}

\* C18: every object returned by a method that reconstructs objects from
\* typed rows is an instance of one of the ten subtypes: a row whose type
\* tag is not one of the ten recognized tags gives no object.
C18_OnlyRecognizedSubtypes ==
    (op \in ObjectMethods /\ raised = "none") =>
        \A n \in 1..Len(result) : result[n].kind \in ObjectClasses

\* C19: the list getAuthorsOfObjectsAcquiredInTimeFrame returns holds no
\* two Persons with the same id, even when several selected objects share
\* an author.
C19_AuthorsDeduplicated ==
    (op = "getAuthorsOfObjectsAcquiredInTimeFrame" /\ raised = "none") =>
        ~HasDuplicateId(result)

\* S: the identifiers with some Acquisition row, in any registered process
\* handler, whose start date is on or after `start`.
StartedSet(start) ==
    {Str(StoredRows[n].object_id) :
        n \in {m \in 1..Len(StoredRows) :
                  /\ StoredRows[m].type = STR_Acquisition
                  /\ HasDate(StoredRows[m].start_date)
                  /\ LexLeq(start, StoredRows[m].start_date)}}

\* E: the identifiers with some Acquisition row whose end date is on or
\* before `end`.
EndedSet(end) ==
    {Str(StoredRows[n].object_id) :
        n \in {m \in 1..Len(StoredRows) :
                  /\ StoredRows[m].type = STR_Acquisition
                  /\ HasDate(StoredRows[m].end_date)
                  /\ LexLeq(StoredRows[m].end_date, end)}}

\* The author ids, as str() gives them, of the rows of the first metadata
\* handler's listing whose id is in ids, in row order.
AuthorIdsListedFor(ids) ==
    LET df == MQ_getAllCulturalHeritageObjects(metadataQuery[1])
        rows == SelectSeq(MapSeq(Len(df), [i \in 1..Len(df) |-> i]),
                          LAMBDA i : Str(Cell(df, i, "id")) \in ids)
    IN  MapSeq(Len(rows), [n \in 1..Len(rows) |-> Str(Cell(df, rows[n], "author_id"))])

\* C20: getAuthorsOfObjectsAcquiredInTimeFrame(start, end) selects exactly
\* the identifiers in S \cap E: it returns one author for each row of the
\* first metadata handler's listing whose id is in S \cap E and none for
\* any other row; the Acquisition row that puts an identifier in S need not
\* be the one that puts it in E, and rows of the other four types put no
\* identifier in either.
C20_SelectsStartedAndEnded ==
    (op = "getAuthorsOfObjectsAcquiredInTimeFrame" /\ raised = "none") =>
        LET authors == AuthorIdsListedFor(StartedSet(arg[1]) \cap EndedSet(arg[2]))
        IN  /\ Len(result) = Len(authors)
            /\ \A n \in 1..Len(authors) : \E k \in 1..Len(result) : result[k].id = authors[n]
            /\ \A k \in 1..Len(result) : \E n \in 1..Len(authors) : result[k].id = authors[n]

\* An identifier is selected although no single row both started on or
\* after `start` and ended on or before `end`: the two rows are held by
\* different handlers.
C20_SelectedThroughTwoRows ==
    /\ op = "getAuthorsOfObjectsAcquiredInTimeFrame"
    /\ raised = "none"
    /\ Len(processQuery) = 2
    /\ result # <<>>
    /\ \A n \in 1..Len(StoredRows) :
          ~ /\ StoredRows[n].type = STR_Acquisition
            /\ HasDate(StoredRows[n].start_date)
            /\ HasDate(StoredRows[n].end_date)
            /\ LexLeq(arg[1], StoredRows[n].start_date)
            /\ LexLeq(StoredRows[n].end_date, arg[2])

(***************************************************************************)
(* Properties of the advanced selections, of registration and of the       *)
(* remaining handler and mashup queries.                                   *)
(***************************************************************************)
\* C21: getActivitiesOnObjectsAuthoredBy(p) asks the first registered
\* metadata handler alone for the objects authored by p, then every
\* registered process handler in order for its activities, and returns one
\* activity for each stored row whose object_id is among those objects'
\* ids, in handler and row order, and none for any other row.
C21_AuthoredActivitiesFromFirstHandler ==
    (op = "getActivitiesOnObjectsAuthoredBy" /\ raised = "none") =>
        LET rows == SelectSeq(StoredRows,
                        LAMBDA r : Str(r.object_id) \in AuthoredIds(metadataQuery, arg))
        IN  /\ calls[1] = Call(metadataQuery[1], "getCulturalHeritageObjectsAuthoredBy",
                               arg, "none")
            /\ \A i \in 2..Len(calls) :
                  /\ calls[i].method = "getAllActivities"
                  /\ calls[i].handler = processQuery[i - 1]
            /\ Len(calls) \in {1, 1 + Len(processQuery)}
            /\ Len(result) = Len(rows)
            /\ \A n \in 1..Len(rows) : FromRow(result[n], rows[n])

\* Two metadata handlers list different objects for the author, two process
\* handlers both hold rows, some selected and some not.
C21_SecondMetadataHandlerDiffers ==
    /\ op = "getActivitiesOnObjectsAuthoredBy"
    /\ raised = "none"
    /\ Len(metadataQuery) = 2
    /\ Len(processQuery) = 2
    /\ AuthoredIds(metadataQuery, arg) # AuthoredIds(<<metadataQuery[2]>>, arg)
    /\ \E n \in 1..Len(StoredRows) :
          /\ Str(StoredRows[n].object_id) \in AuthoredIds(<<metadataQuery[2]>>, arg)
          /\ Str(StoredRows[n].object_id) \notin AuthoredIds(metadataQuery, arg)
    /\ result # <<>>
    /\ Len(result) < Len(StoredRows)

\* The object_ids, as str, of the rows that match the filter of the last
\* handled-objects query in any registered process handler.
HandledSet ==
    LET rows == RowsInOrder(IF op = "getObjectsHandledByResponsiblePerson"
                            THEN "getActivitiesByResponsiblePerson"
                            ELSE "getActivitiesByResponsibleInstitution",
                            processQuery, arg)
    IN  {Str(rows[n].object_id) : n \in 1..Len(rows)}

\* The positions of the rows of listing df whose id is in ids.
RowsWithIdIn(df, ids) ==
    SelectSeq(MapSeq(Len(df), [i \in 1..Len(df) |-> i]),
              LAMBDA i : Str(Cell(df, i, "id")) \in ids)

\* Object e carries the columns of row i of listing df.
FromListingRow(e, df, i) ==
    /\ e.id = Cell(df, i, "id")
    /\ e.title = Cell(df, i, "title")
    /\ e.date = Cell(df, i, "date")
    /\ e.place = Cell(df, i, "place")
    /\ e.owner = Str(Cell(df, i, "owner"))

\* C22: getObjectsHandledByResponsiblePerson and
\* getObjectsHandledByResponsibleInstitution return one object for each row
\* of the first metadata handler's full listing whose id is the object_id
\* of some activity row matching the filter in any registered process
\* handler, in listing order, and nothing else; no other metadata handler
\* is asked.
C22_HandledObjectsFromFirstListing ==
    ( /\ op \in {"getObjectsHandledByResponsiblePerson",
                 "getObjectsHandledByResponsibleInstitution"}
      /\ raised = "none" ) =>
        LET df == MQ_getAllCulturalHeritageObjects(metadataQuery[1])
            rows == RowsWithIdIn(df, HandledSet)
        IN  /\ Len(result) = Len(rows)
            /\ \A n \in 1..Len(rows) : FromListingRow(result[n], df, rows[n])
            /\ \A i \in 1..Len(calls) :
                  calls[i].handler \in MetadataHandlers =>
                      calls[i] = Call(metadataQuery[1], "getAllCulturalHeritageObjects",
                                      None, "none")

\* An object handled by the person is listed by the second metadata handler
\* alone, while the first lists another handled object, and two process
\* handlers contribute to the set.
C22_HandledObjectOnlyInSecondListing ==
    /\ op = "getObjectsHandledByResponsiblePerson"
    /\ raised = "none"
    /\ Len(metadataQuery) = 2
    /\ Len(processQuery) = 2
    /\ PQ_getActivitiesByResponsiblePerson(processQuery[1], arg) # <<>>
    /\ PQ_getActivitiesByResponsiblePerson(processQuery[2], arg) # <<>>
    /\ LET df1 == MQ_getAllCulturalHeritageObjects(metadataQuery[1])
           df2 == MQ_getAllCulturalHeritageObjects(metadataQuery[2])
       IN  \E i \in 1..Len(df2) :
              /\ Str(Cell(df2, i, "id")) \in HandledSet
              /\ \A j \in 1..Len(df1) : Cell(df1, j, "id") # Cell(df2, i, "id")
    /\ result # <<>>

\* The first metadata handler's listing for the owner of the last call.
OwnerListing == MQ_getAllCulturalHeritageObjectByOwner(metadataQuery[1], arg[2])

\* C23: getCulturalHeritageObjectsByAuthorAndOwner(personId, owner) returns
\* one object for each row of the first metadata handler's owner-filtered
\* listing whose author identifier is personId or whose own identifier is
\* personId, and none for a row that matches neither: a row without an
\* author identifier is returned only when its own identifier is personId.
C23_ExactlyAuthorOrObjectId ==
    (op = "getCulturalHeritageObjectsByAuthorAndOwner" /\ raised = "none") =>
        LET rows == SelectSeq(MapSeq(Len(OwnerListing), [i \in 1..Len(OwnerListing) |-> i]),
                        LAMBDA i : \/ Cell(OwnerListing, i, "author_id") = arg[1]
                                   \/ Cell(OwnerListing, i, "id") = arg[1])
        IN  /\ Len(result) = Len(rows)
            /\ \A n \in 1..Len(rows) : result[n].id = Cell(OwnerListing, rows[n], "id")

\* C23 as the code has it: an absent author identifier counts as the empty
\* string, so that an empty personId selects the rows without an author.
C23_AbsentAuthorCountsAsEmpty ==
    (op = "getCulturalHeritageObjectsByAuthorAndOwner" /\ raised = "none") =>
        LET rows == SelectSeq(MapSeq(Len(OwnerListing), [i \in 1..Len(OwnerListing) |-> i]),
                        LAMBDA i : \/ FillNa(Cell(OwnerListing, i, "author_id")) = arg[1]
                                   \/ Cell(OwnerListing, i, "id") = arg[1])
        IN  /\ Len(result) = Len(rows)
            /\ \A n \in 1..Len(rows) : result[n].id = Cell(OwnerListing, rows[n], "id")

\* C24: addMetadataHandler and addProcessHandler put the handler at the end
\* of their own collection, the handlers already there keeping their order
\* and a handler already there being added again, and return True;
\* cleanMetadataHandlers and cleanProcessHandlers empty their own
\* collection and return True; each leaves the other collection as it was.
C24_RegistrationIsIndependent ==
    [][ /\ op' = "addMetadataHandler" =>
            /\ \E h \in MetadataHandlers : metadataQuery' = Append(metadataQuery, h)
            /\ processQuery' = processQuery
            /\ result' = TRUE
        /\ op' = "addProcessHandler" =>
            /\ \E h \in ProcessHandlers : processQuery' = Append(processQuery, h)
            /\ metadataQuery' = metadataQuery
            /\ result' = TRUE
        /\ op' = "cleanMetadataHandlers" =>
            /\ metadataQuery' = <<>>
            /\ processQuery' = processQuery
            /\ result' = TRUE
        /\ op' = "cleanProcessHandlers" =>
            /\ processQuery' = <<>>
            /\ metadataQuery' = metadataQuery
            /\ result' = TRUE ]_vars

\* A handler has been added after a different one, to a mashup that holds
\* process handlers, one of them twice.
C24_AddedAfterAnotherHandler ==
    /\ op = "addMetadataHandler"
    /\ Len(metadataQuery) = 2
    /\ metadataQuery[1] # metadataQuery[2]
    /\ Len(processQuery) = 2
    /\ processQuery[1] = processQuery[2]
    /\ result = TRUE

\* C26: the handler collection of a mashup changes only in the mashup's own
\* add and clean operations: no query, no operation on another mashup and
\* no mutation of a list that was passed to the constructor changes it.
C26_OnlyOwnOperationsChange ==
    [][ metadataQuery' # metadataQuery =>
            op' \in {"addMetadataHandler", "cleanMetadataHandlers"} ]_vars

\* C26, the half about queries: no query method changes the two
\* collections.
C26_QueriesChangeNothing ==
    [][ op' \notin {"addMetadataHandler", "addProcessHandler", "cleanMetadataHandlers",
                    "cleanProcessHandlers"} =>
            (metadataQuery' = metadataQuery /\ processQuery' = processQuery) ]_vars

\* The read-only methods of the mashup.
ReadOnlyMethods ==
    {"getEntityById", "getAllPeople", "getAllCulturalHeritageObjects",
     "getCulturalHeritageObjectsAuthoredBy"}
        \cup ActivityMethods \cup AdvancedMethods

\* What a call gave, order apart: the exception that left it, or the set of
\* the values returned (the one entity of getEntityById as it is).
GivenBy(name, value, error) ==
    IF error # "none" THEN [raised |-> error, values |-> {}]
    ELSE IF name = "getEntityById" THEN [raised |-> "none", values |-> {value}]
    ELSE [raised |-> "none", values |-> {value[i] : i \in 1..Len(value)}]

IsYearRange(date) ==
    /\ Len(date) = 9
    /\ date[5] = "-"
    /\ \A i \in {1, 2, 3, 4, 6, 7, 8, 9} : IsDigit(date[i])

StatedYear(date) ==
    IF date = Unbound THEN NoInteger
    ELSE IF IsYearRange(date) THEN DecimalValue(SubSeq(date, 6, 9))
    ELSE IF date # <<>> /\ \A i \in 1..Len(date) : IsDigit(date[i]) THEN DecimalValue(date)
    ELSE IF \E i \in 1..Len(date) : IsDigit(date[i])
         THEN DecimalValue(SelectSeq(date, IsDigit))
    ELSE NoInteger

\* The records of an endpoint: its typed nodes other than authors.
RecordsOf(h) ==
    {metaStore[h].nodes[i] : i \in {j \in 1..Len(metaStore[h].nodes) :
        /\ metaStore[h].nodes[j].type # Unbound
        /\ TypeLabel(metaStore[h].nodes[j]) # STR_Author}}

IsRowOf(r, n) == r.id = n.identifier /\ r.title = n.name /\ r.date = n.date

\* C27: getAllCulturalHeritageObjectCreatedAfter(year), asked of an endpoint
\* that answers, returns without an error, and a record is in the table
\* exactly when its date gives a year and that year is greater than year;
\* the year is the end of a range, else the single year, else the digits
\* embedded in the text, and a record with no date or with a date without
\* digits is left out.
C27_CreatedAfterByEffectiveYear ==
    (op = "getAllCulturalHeritageObjectCreatedAfter" /\ metaStore[arg[1]].fault = "none") =>
        /\ raised = "none"
        /\ \A n \in RecordsOf(arg[1]) :
              (\E i \in 1..Len(result) : IsRowOf(result[i], n))
                  <=> (StatedYear(n.date) # NoInteger /\ StatedYear(n.date) > arg[2])
        /\ \A i \in 1..Len(result) : \E n \in RecordsOf(arg[1]) : IsRowOf(result[i], n)

\* Asked for what was created after 1505, the endpoint lists the chart of
\* 1500-1510 and the volume of "ca. 1520", and neither the herbarium of
\* 1503 nor the two specimens without a year.
C27_RangeAndEmbeddedYearListed ==
    /\ op = "getAllCulturalHeritageObjectCreatedAfter"
    /\ world = DatedWorld
    /\ arg = <<"M1", 1505>>
    /\ raised = "none"
    /\ {result[i].id : i \in 1..Len(result)} = {id_obj1, id_obj3}

\* C28: every object returned by getCulturalHeritageObjectsAuthoredBy has as
\* its id the text of the id column of a row the first handler listed for
\* the author.
C28_IdIsTheRowsId ==
    op = "getCulturalHeritageObjectsAuthoredBy" =>
        \A i \in 1..Len(result) :
            \E k \in 1..Len(MQ_getCulturalHeritageObjectsAuthoredBy(metadataQuery[1], arg)) :
                result[i].id = Str(MQ_getCulturalHeritageObjectsAuthoredBy(metadataQuery[1], arg)[k].id)

\* C28, what the code does instead: every object returned carries the
\* built-in function id as its id, one object per listed row of a
\* recognized type, the other fields being those of the row.
C28_IdIsTheBuiltinFunction ==
    op = "getCulturalHeritageObjectsAuthoredBy" =>
        \A i \in 1..Len(result) :
            /\ result[i].id = BuiltinId
            /\ \E k \in 1..Len(MQ_getCulturalHeritageObjectsAuthoredBy(metadataQuery[1], arg)) :
                  /\ result[i].title = MQ_getCulturalHeritageObjectsAuthoredBy(metadataQuery[1], arg)[k].title
                  /\ result[i].kind = MQ_getCulturalHeritageObjectsAuthoredBy(metadataQuery[1], arg)[k].type_name

\* The object_ids of the rows every registered handler lists for the
\* technique.
TechniqueObjectIds(pq, technique) ==
    {TechniqueRowsInOrder(pq, technique)[n].object_id :
        n \in 1..Len(TechniqueRowsInOrder(pq, technique))} \ {None, <<>>}

\* A placeholder object for object_id: the base class, the empty title and
\* nothing else.
IsPlaceholderFor(e, object_id) ==
    /\ e.kind = STR_CulturalHeritageObject
    /\ e.id = object_id
    /\ e.title = <<>>
    /\ e.hasAuthor = <<>>

\* C29: getAcquisitionsByTechnique returns one Acquisition for each distinct
\* object_id of the matching rows of all the handlers consulted, the later
\* rows of an object_id being dropped; the refersTo of each is a
\* CulturalHeritageObject, never absent and never a Person, and it is a
\* placeholder with the row's object_id when the lookup of the object_id
\* finds nothing or finds a Person.
C29_OneAcquisitionPerObjectId ==
    op = "getAcquisitionsByTechnique" =>
        /\ Len(result) = Cardinality(TechniqueObjectIds(processQuery, arg))
        /\ \A i \in 1..Len(result) :
              /\ result[i].kind = STR_Acquisition
              /\ result[i].refersTo # NoEntity
              /\ IsCulturalHeritageObject(result[i].refersTo)
        /\ \A id \in TechniqueObjectIds(processQuery, arg) :
              (\/ getEntityById(metadataQuery, Str(id)).value = NoEntity
               \/ getEntityById(metadataQuery, Str(id)).value.kind = STR_Person)
              => \E i \in 1..Len(result) : IsPlaceholderFor(result[i].refersTo, id)

\* Two handlers list matching rows for one object_id, so that a row is
\* dropped, and one of the acquisitions returned refers to a placeholder
\* because the lookup found nothing.
C29_RowDroppedAndPlaceholderMade ==
    /\ op = "getAcquisitionsByTechnique"
    /\ Len(processQuery) = 2
    /\ processQuery[1] # processQuery[2]
    /\ \E id \in TechniqueObjectIds(processQuery, arg) :
          /\ \E n \in 1..Len(PQ_getAcquisitionsByTechnique(processQuery[1], arg)) :
                PQ_getAcquisitionsByTechnique(processQuery[1], arg)[n].object_id = id
          /\ \E n \in 1..Len(PQ_getAcquisitionsByTechnique(processQuery[2], arg)) :
                PQ_getAcquisitionsByTechnique(processQuery[2], arg)[n].object_id = id
    /\ \E i \in 1..Len(result) :
          \E id \in TechniqueObjectIds(processQuery, arg) :
              /\ getEntityById(metadataQuery, Str(id)).value = NoEntity
              /\ IsPlaceholderFor(result[i].refersTo, id)

\* The lookup of a row's object_id finds a Person, and the acquisition
\* returned for the row refers to a placeholder.
C29_PlaceholderInsteadOfPerson ==
    /\ op = "getAcquisitionsByTechnique"
    /\ \E i \in 1..Len(result) :
          \E id \in TechniqueObjectIds(processQuery, arg) :
              /\ getEntityById(metadataQuery, Str(id)).value.kind = STR_Person
              /\ IsPlaceholderFor(result[i].refersTo, id)

\* The first row of table df that has the identifier id and a recognized
\* type tag.
FirstRowFor(df, id) ==
    df[CHOOSE i \in 1..Len(df) :
          /\ df[i].id = id /\ df[i].type_name \in ObjectClasses
          /\ \A j \in 1..(i - 1) : ~(df[j].id = id /\ df[j].type_name \in ObjectClasses)]

\* The author list a listing row gives: its author when it has both an
\* author id and an author name, none otherwise.
AuthorsOfRow(r) ==
    IF r.author_id # Unbound /\ r.author_name # Unbound /\ r.author_id # <<>>
       /\ r.author_name # <<>>
    THEN <<Person(r.author_id, r.author_name)>> ELSE <<>>

\* C30: every object getAllCulturalHeritageObjects returns carries at most
\* one author: the author of the first row for its identifier in the
\* listing of the earliest handler that produces it, whatever the number of
\* rows (one per author) that listing has for the identifier, and no
\* author when that first row lacks an author id or an author name.
C30_AtMostTheFirstRowsAuthor ==
    op = "getAllCulturalHeritageObjects" =>
        \A n \in 1..Len(result) :
            /\ Len(result[n].hasAuthor) <= 1
            /\ \E k \in 1..Len(metadataQuery) :
                  /\ ProducesObject(metadataQuery[k], result[n].id)
                  /\ \A j \in 1..(k - 1) : ~ProducesObject(metadataQuery[j], result[n].id)
                  /\ result[n].hasAuthor =
                        AuthorsOfRow(FirstRowFor(MQ_getAllCulturalHeritageObjects(metadataQuery[k]),
                                                 result[n].id))

\* The listing has two rows with different authors for one identifier, the
\* object returned for it carries the author of the first, and another
\* object returned has no author.
C30_TwoAuthorRowsOneKept ==
    /\ op = "getAllCulturalHeritageObjects"
    /\ Len(metadataQuery) = 1
    /\ \E n \in 1..Len(result) :
          LET df == MQ_getAllCulturalHeritageObjects(metadataQuery[1])
          IN  /\ \E i \in 1..Len(df) : \E j \in (i + 1)..Len(df) :
                    /\ df[i].id = result[n].id /\ df[j].id = result[n].id
                    /\ AuthorsOfRow(df[i]) # <<>> /\ AuthorsOfRow(df[j]) # <<>>
                    /\ AuthorsOfRow(df[i]) # AuthorsOfRow(df[j])
                    /\ result[n].hasAuthor = AuthorsOfRow(df[i])
    /\ \E n \in 1..Len(result) : result[n].hasAuthor = <<>>
====
